---- MODULE Spec2Model ----
(***************************************************************************)
(* A model of BIMailer: the processing lock (Scripts/utils.py), the        *)
(* orchestrator and its entry point (Scripts/main.py), the folder pipeline *)
(* with its collaborators (Scripts/pdf_generator.py,                       *)
(* Scripts/email_sender.py, Scripts/file_manager.py) and the configuration *)
(* checks (Scripts/config_manager.py).                                     *)
(*                                                                         *)
(* SpecLock  : several invocations of main() racing for the lock file, the *)
(*             lock operations split at their file-system calls.           *)
(* Spec      : invocations of main() one after another, each with the      *)
(*             whole run: initialisation, lock, discovery, the pipeline of *)
(*             every folder, summary, cleanup, exit code.                  *)
(* SpecConfig: loading and validating the configuration files.             *)
(* SpecSweep : the retention sweep of the archive.                         *)
(* SpecMailer: _send_single_email with its transports.                     *)
(* SpecSplit : split_email_list on the cells of the mailing list.          *)
(***************************************************************************)
EXTENDS Integers, Sequences, FiniteSets, TLC

(***************************************************************************)
(* Bounds of the model.                                                    *)
(***************************************************************************)
\* the invocations of main() that may overlap
Invocations == {1, 2, 3}
\* the clock runs from 0 to MaxTime minutes
MaxTime == 2
\* processing_lock_timeout_minutes is drawn from 1..MaxTimeout
MaxTimeout == 1

\* seconds in a minute: the factor of utils.py:120
SecondsPerMinute == 60

\* the lock file is absent
NoFile == [pid |-> 0, mtime |-> -1]

VARIABLES
    now,               \* wall clock, in minutes
    timeout_minutes,   \* ProcessingLock.timeout_minutes (one configuration)
    lock_file,         \* the marker ".lock": NoFile or [pid, mtime]
    pc,                \* per invocation: where it is in main()
    acq,               \* per invocation: what acquire_lock returned
    seenAge,           \* per invocation: marker age (s) read at utils.py:117-120, -1 if none
    interfered,        \* per invocation: another invocation changed the marker during its acquire_lock
    entered,           \* per invocation: the body of the with statement was entered
    releaseCalls,      \* per invocation: number of release_lock calls begun
    bodyExit,          \* per invocation: how the locked region was left
    \* ---- Spec: invocations of main() one after another, with the pipeline ----
    mailing_rows,      \* the rows of Config/mailing_list.csv as read by pandas
    archive_tree,      \* the directories and files below Archive, for cleanup_old_archives
    mail_attempts,     \* the _send_single_email calls made: what the environment did, what was returned
    recipients_cell,      \* row['Recipients'] of a mailing_list.csv row, handed to split_email_list
    valid_emails,      \* what that call returned
    config,            \* the configuration on disk (ConfigManager)
    disk,              \* the file areas and the bookkeeping of the invocation
    mpc,               \* where the invocation is in main()
    command,           \* sys.argv[1] lowered: <<"run", "">> or <<"folder", name>>
    eligible,          \* folders_to_process of main.py:63
    todo,              \* the part of folders_to_process not yet processed
    processing_results,\* main.py:56, 74: the results in the order they were stored
    summaries,         \* administrator summaries sent by this invocation
    error_notifications, \* critical-error notifications sent by this invocation
    cleanups,          \* _perform_cleanup calls of this invocation
    acquired,          \* this invocation's acquire_lock returned True
    exit_code,         \* value main() returned, -1 while it runs
    runs               \* invocations started so far

lockVars == <<now, timeout_minutes, lock_file, pc, acq, seenAge, interfered,
              entered, releaseCalls, bodyExit>>

procVars == <<pc, acq, seenAge, interfered, entered, releaseCalls, bodyExit>>

mainVars == <<mailing_rows, archive_tree, mail_attempts, recipients_cell, valid_emails,
              config, disk, mpc, command, eligible, todo, processing_results,
              summaries, error_notifications, cleanups, acquired, exit_code, runs>>

vars == <<lockVars, mainVars>>

(***************************************************************************)
(* ProcessingLock, utils.py:104-160                                        *)
(***************************************************************************)
\* (current_time - lock_time).total_seconds(), utils.py:117-120
AgeSeconds(file, t) == (t - file.mtime) * SecondsPerMinute

\* the staleness test of utils.py:120, with the comparison weakened to >=
IsStale_ge(file, t, tmo) == AgeSeconds(file, t) >= tmo * SecondsPerMinute

\* the staleness test of utils.py:120, extended with a test that the process
\* recorded in the marker is no longer inside the locked region
IsStale_ownerGone(file, t, tmo) ==
    /\ AgeSeconds(file, t) > tmo * SecondsPerMinute
    /\ ~(file.pid \in Invocations /\ pc[file.pid] = "locked")

\* the staleness test of utils.py:120
IsStale(file, t, tmo) == AgeSeconds(file, t) > tmo * SecondsPerMinute

\* release_lock without the existence test of utils.py:146: unlink() raises on
\* an absent marker and the error is not contained
release_lock_unguarded(file) ==
    [file |-> NoFile, raised |-> file = NoFile]

\* release_lock run without interruption, utils.py:143-150: the marker that is
\* left and whether an error reaches the caller
release_lock(file) ==
    IF file # NoFile THEN [file |-> NoFile, raised |-> FALSE]
                     ELSE [file |-> file, raised |-> FALSE]

\* lock_data written at utils.py:128-134; the file's mtime is the time of writing
NewMarker(p, t) == [pid |-> p, mtime |-> t]

InAcquire(p) == pc[p] \in {"acq_exists", "acq_stat", "acq_unlink", "acq_create"}

\* every other invocation that is inside acquire_lock has now been interfered with
Interfere(p) == [q \in Invocations |->
                    IF q # p /\ InAcquire(q) THEN TRUE ELSE interfered[q]]

\* main(): the invocation starts and reaches the with statement (main.py:354)
Invoke(p) ==
    /\ pc[p] = "idle"
    /\ pc' = [pc EXCEPT ![p] = "acq_exists"]
    /\ UNCHANGED <<now, timeout_minutes, lock_file, acq, seenAge, interfered,
                   entered, releaseCalls, bodyExit>>
    /\ UNCHANGED mainVars

\* __enter__ that ignores the result of acquire_lock and lets the body run
AcquireFailed_bodyRuns(p, why) ==
    /\ acq' = [acq EXCEPT ![p] = why]
    /\ pc' = [pc EXCEPT ![p] = "locked"]

\* __enter__ raising RuntimeError (utils.py:154-155), caught at main.py:369-372
AcquireFailed(p, why) ==
    /\ acq' = [acq EXCEPT ![p] = why]
    /\ pc' = [pc EXCEPT ![p] = "ended"]

\* utils.py:115  if self.lock_file.exists()
AcquireExists(p) ==
    /\ pc[p] = "acq_exists"
    /\ pc' = [pc EXCEPT ![p] = IF lock_file # NoFile THEN "acq_stat" ELSE "acq_create"]
    /\ UNCHANGED <<now, timeout_minutes, lock_file, acq, seenAge, interfered,
                   entered, releaseCalls, bodyExit>>
    /\ UNCHANGED mainVars

\* utils.py:117-125  stat(), the staleness decision, the Busy return
AcquireStat(p) ==
    /\ pc[p] = "acq_stat"
    /\ IF lock_file = NoFile
       THEN \* stat() raises FileNotFoundError: utils.py:139-141
            /\ AcquireFailed(p, "error")
            /\ UNCHANGED seenAge
       ELSE /\ seenAge' = [seenAge EXCEPT ![p] = AgeSeconds(lock_file, now)]
            /\ IF IsStale(lock_file, now, timeout_minutes)
               THEN /\ pc' = [pc EXCEPT ![p] = "acq_unlink"]
                    /\ UNCHANGED acq
               ELSE AcquireFailed(p, "busy")
    /\ UNCHANGED <<now, timeout_minutes, lock_file, interfered,
                   entered, releaseCalls, bodyExit>>
    /\ UNCHANGED mainVars

\* utils.py:122  self.lock_file.unlink()
AcquireUnlink(p) ==
    /\ pc[p] = "acq_unlink"
    /\ IF lock_file = NoFile
       THEN \* unlink() raises FileNotFoundError: utils.py:139-141
            /\ AcquireFailed(p, "error")
            /\ UNCHANGED <<lock_file, interfered>>
       ELSE /\ lock_file' = NoFile
            /\ interfered' = Interfere(p)
            /\ pc' = [pc EXCEPT ![p] = "acq_create"]
            /\ UNCHANGED acq
    /\ UNCHANGED <<now, timeout_minutes, seenAge, entered, releaseCalls, bodyExit>>
    /\ UNCHANGED mainVars

\* utils.py:127-137  open(lock_file, 'w') creates or overwrites the marker;
\* __enter__ returns and the body of the with statement is entered
AcquireCreate(p) ==
    /\ pc[p] = "acq_create"
    /\ lock_file' = NewMarker(p, now)
    /\ interfered' = Interfere(p)
    /\ acq' = [acq EXCEPT ![p] = "ok"]
    /\ entered' = [entered EXCEPT ![p] = TRUE]
    /\ pc' = [pc EXCEPT ![p] = "locked"]
    /\ UNCHANGED <<now, timeout_minutes, seenAge, releaseCalls, bodyExit>>
    /\ UNCHANGED mainVars

\* a with statement whose exit releases only after a normal return
BodyEnds_noReleaseOnError(p) ==
    /\ pc[p] = "locked"
    /\ \E how \in {"return", "exception", "interrupt"} :
          /\ bodyExit' = [bodyExit EXCEPT ![p] = how]
          /\ IF how = "return"
             THEN /\ releaseCalls' = [releaseCalls EXCEPT ![p] = @ + 1]
                  /\ pc' = [pc EXCEPT ![p] = "rel_exists"]
             ELSE /\ pc' = [pc EXCEPT ![p] = "ended"]
                  /\ UNCHANGED releaseCalls
    /\ UNCHANGED <<now, timeout_minutes, lock_file, acq, seenAge, interfered,
                   entered>>
    /\ UNCHANGED mainVars

\* the locked region ends: a normal return of run_full_processing or
\* process_specific_folder, an exception raised by it (main.py:89-92), or a
\* KeyboardInterrupt; __exit__ then runs (utils.py:158-160)
BodyEnds(p) ==
    /\ pc[p] = "locked"
    /\ \E how \in {"return", "exception", "interrupt"} :
          bodyExit' = [bodyExit EXCEPT ![p] = how]
    /\ releaseCalls' = [releaseCalls EXCEPT ![p] = @ + 1]
    /\ pc' = [pc EXCEPT ![p] = "rel_exists"]
    /\ UNCHANGED <<now, timeout_minutes, lock_file, acq, seenAge, interfered,
                   entered>>
    /\ UNCHANGED mainVars

\* the process is killed from outside while it holds the lock: no __exit__
Kill(p) ==
    /\ pc[p] = "locked"
    /\ pc' = [pc EXCEPT ![p] = "killed"]
    /\ UNCHANGED <<now, timeout_minutes, lock_file, acq, seenAge, interfered,
                   entered, releaseCalls, bodyExit>>
    /\ UNCHANGED mainVars

\* utils.py:146  if self.lock_file.exists()
ReleaseExists(p) ==
    /\ pc[p] = "rel_exists"
    /\ pc' = [pc EXCEPT ![p] = IF lock_file # NoFile THEN "rel_unlink" ELSE "ended"]
    /\ UNCHANGED <<now, timeout_minutes, lock_file, acq, seenAge, interfered,
                   entered, releaseCalls, bodyExit>>
    /\ UNCHANGED mainVars

\* a release that unlinks the marker only when it records the releasing process
ReleaseUnlink_ownerOnly(p) ==
    /\ pc[p] = "rel_unlink"
    /\ lock_file' = IF lock_file # NoFile /\ lock_file.pid = p THEN NoFile ELSE lock_file
    /\ interfered' = IF lock_file # NoFile /\ lock_file.pid = p
                     THEN Interfere(p) ELSE interfered
    /\ pc' = [pc EXCEPT ![p] = "ended"]
    /\ UNCHANGED <<now, timeout_minutes, acq, seenAge, entered, releaseCalls, bodyExit>>
    /\ UNCHANGED mainVars

\* utils.py:147-150  unlink(); a FileNotFoundError is caught and logged
ReleaseUnlink(p) ==
    /\ pc[p] = "rel_unlink"
    /\ lock_file' = release_lock(lock_file).file
    /\ interfered' = IF lock_file # NoFile THEN Interfere(p) ELSE interfered
    /\ pc' = [pc EXCEPT ![p] = "ended"]
    /\ UNCHANGED <<now, timeout_minutes, acq, seenAge, entered, releaseCalls, bodyExit>>
    /\ UNCHANGED mainVars


(***************************************************************************)
(* Configuration, config_manager.py                                        *)
(***************************************************************************)
\* no value (Python's None) where a name is expected
NoName == "None"

\* MailingEntry, config_manager.py:52-58
Entry(pdf, rcpt) == [pdf_name |-> pdf, recipients |-> rcpt]

\* the settings shared by the configurations of the model
BaseSettings ==
    [use_default_mailer |-> FALSE, smtp_complete |-> TRUE,
     processing_lock_timeout_minutes |-> 1,
     admin_emails |-> {"admin"}, send_summary_email |-> TRUE,
     send_error_notifications |-> TRUE, archive_after_processing |-> TRUE,
     max_attachment_size_mb |-> 1, log_retention_days |-> 1]

\* a complete configuration: two folders, the global folder, two mailing
\* entries for the first document and one for the second
cfgGood ==
    [settings |-> BaseSettings,
     pdf_names_mapping |-> [f \in {"a", "B", "ALL"} |->
          CASE f = "a" -> "RA" [] f = "B" -> "RB" [] f = "ALL" -> "Global Headers"],
     mailing_list |-> <<Entry("RA", "r1"), Entry("RA", "r2"), Entry("RB", "r3")>>]

\* a mailing entry names a document no folder maps to
cfgOrphan ==
    [cfgGood EXCEPT !.mailing_list =
        <<Entry("RA", "r1"), Entry("RX", "r2"), Entry("RB", "r3")>>]

\* a mapped document has no mailing entry
cfgMissing ==
    [cfgGood EXCEPT !.mailing_list = <<Entry("RA", "r1"), Entry("RA", "r2")>>]

\* notifications are enabled and no administrator address is configured
cfgNoAdmin == [cfgGood EXCEPT !.settings.admin_emails = {}]

\* SMTP is selected and its server, user name or password is missing
cfgNoSmtp == [cfgGood EXCEPT !.settings.smtp_complete = FALSE]

\* the mailing list is empty
cfgNoMailing == [cfgGood EXCEPT !.mailing_list = <<>>]

\* folder "a" is mapped to "Global Headers", the one document name that
\* validate_configuration lets go without a mailing entry
cfgHeaders ==
    [cfgGood EXCEPT !.pdf_names_mapping["a"] = "Global Headers",
                    !.mailing_list = <<Entry("RB", "r3")>>]

\* archive_after_processing is off
cfgNoArchive == [cfgGood EXCEPT !.settings.archive_after_processing = FALSE]

\* the document of folder "B" is named like folder "a"
cfgNamesake ==
    [cfgGood EXCEPT !.pdf_names_mapping["B"] = "a",
                    !.mailing_list = <<Entry("RA", "r1"), Entry("a", "r2")>>]

\* the configurations an invocation may find on disk
Configs ==
    {cfgGood, cfgOrphan, cfgMissing, cfgNoAdmin, cfgNoSmtp, cfgNoMailing, cfgHeaders,
     cfgNoArchive, cfgNamesake}

Range(f) == {f[x] : x \in DOMAIN f}

\* get_pdf_name_for_folder, config_manager.py:213-215
get_pdf_name_for_folder(cfg, folder_name) ==
    IF folder_name \in DOMAIN cfg.pdf_names_mapping
    THEN cfg.pdf_names_mapping[folder_name] ELSE NoName

\* get_all_folder_names, config_manager.py:221-223
get_all_folder_names(cfg) == DOMAIN cfg.pdf_names_mapping

\* get_mailing_entries_for_pdf, config_manager.py:217-219: the positions in
\* mailing_list of the entries for pdf_name, in list order
RECURSIVE MatchingFrom(_, _, _)
MatchingFrom(cfg, pdf_name, i) ==
    IF i > Len(cfg.mailing_list) THEN <<>>
    ELSE (IF cfg.mailing_list[i].pdf_name = pdf_name THEN <<i>> ELSE <<>>)
            \o MatchingFrom(cfg, pdf_name, i + 1)

get_mailing_entries_for_pdf(cfg, pdf_name) == MatchingFrom(cfg, pdf_name, 1)

\* validate_configuration that reports nothing
validate_configuration_lax(cfg) == {}

\* the document names of the mailing entries, config_manager.py:257
mailing_pdf_names(cfg) == {cfg.mailing_list[i].pdf_name : i \in DOMAIN cfg.mailing_list}

\* config_manager.py:256-258: named by a mailing entry, mapped by no folder
orphaned_pdfs(cfg) == mailing_pdf_names(cfg) \ Range(cfg.pdf_names_mapping)

\* config_manager.py:265-266: mapped, without a mailing entry, and not the
\* literal "Global Headers"
missing_mailing_entries(cfg) ==
    (Range(cfg.pdf_names_mapping) \ mailing_pdf_names(cfg)) \ {"Global Headers"}

\* validate_configuration, config_manager.py:229-278: the set of errors
validate_configuration(cfg) ==
    LET st == cfg.settings
    IN  (IF ~st.use_default_mailer /\ ~st.smtp_complete THEN {"smtp"} ELSE {})
        \cup (IF (st.send_summary_email \/ st.send_error_notifications)
                  /\ st.admin_emails = {} THEN {"admin_emails"} ELSE {})
        \cup (IF DOMAIN cfg.pdf_names_mapping = {} THEN {"no_mapping"} ELSE {})
        \cup (IF cfg.mailing_list = <<>> THEN {"no_mailing_list"} ELSE {})
        \cup (IF orphaned_pdfs(cfg) # {} THEN {"orphaned"} ELSE {})
        \cup (IF missing_mailing_entries(cfg) # {} THEN {"missing_entries"} ELSE {})

(***************************************************************************)
(* The file areas: Input/<folder>, Output/PDFs, Archive                    *)
(***************************************************************************)
\* image file names, in the order sorted() gives them (utils.py:248)
ImageOrder == <<"x.png", "y.png">>
ImageNames == Range(ImageOrder)

\* bytes in a megabyte: the two divisions by 1024 of pdf_generator.py:247
BytesPerMB == 1048576

\* no document path (Python's None)
NoPath == [name |-> NoName, ts |-> -1]

\* what the environment does during one folder's pipeline
Envs ==
    [create    : {"ok", "fail"},          \* _create_pdf raises or not
     skip      : {{}, {"y.png"}},          \* images whose rendering raises
     metaWrite : BOOLEAN,                  \* the sidecar can be written
     delta     : {-1, 0, 1},               \* document size minus the maximum, bytes
     metaRead  : BOOLEAN,                  \* the sidecar can be read back
     send      : [1..3 -> BOOLEAN],        \* per mailing-list position: transport succeeds
     archPdf   : {"ok", "pdf_fails", "meta_fails"},
     stuck     : {{}, {"y.png"}},          \* images whose move raises
     crash     : {"none", "start", "end"}] \* a logging call of main.py:107 or
                                           \* main.py:155-157 raises

\* number of outcomes of an environment that are not the nominal one
Events(e) ==
    (IF e.create = "fail" THEN 1 ELSE 0) + Cardinality(e.skip)
    + (IF e.metaWrite THEN 0 ELSE 1) + (IF e.delta = -1 THEN 0 ELSE 1)
    + (IF e.metaRead THEN 0 ELSE 1)
    + Cardinality({i \in DOMAIN e.send : ~e.send[i]})
    + (IF e.archPdf = "ok" THEN 0 ELSE 1) + Cardinality(e.stuck)
    + (IF e.crash = "none" THEN 0 ELSE 1)

\* a call made by the pipeline to one of its collaborators
Call(op, folder, entry, ok, files) ==
    [op |-> op, folder |-> folder, entry |-> entry, ok |-> ok, files |-> files,
     doc |-> NoName]

\* a call of send_pdf_emails: the document name it looked up and what it returned
DispatchCall(folder, pdf_name, ok) ==
    [Call("dispatch", folder, 0, ok, <<>>) EXCEPT !.doc = pdf_name]

\* get_png_files, utils.py:238-248: the folder's images, sorted, each with
\* the folder it lies in
get_png_files(st, folder) ==
    IF folder \notin st.dirs THEN <<>>
    ELSE LET present == SelectSeq(ImageOrder, LAMBDA n : n \in st.input[folder])
         IN  [i \in DOMAIN present |-> [name |-> present[i], src |-> folder]]

NamesOf(files) == {files[i].name : i \in DOMAIN files}

(***************************************************************************)
(* PDFGenerator, pdf_generator.py                                          *)
(*                                                                         *)
(* The pipeline operators take and return the record st of the file areas  *)
(* and of the run's bookkeeping:                                           *)
(*   dirs    the folders that exist under Input                            *)
(*   input   the image files of each folder                                *)
(*   output  the files of Output/PDFs: per document path, whether the      *)
(*           document and its sidecar are there, and the document's size   *)
(*   archive the files moved under Archive                                 *)
(*   calls   the collaborator calls made so far in this invocation         *)
(*   used    the number of non-nominal environment outcomes met            *)
(*   dispatch_failed  the folders whose dispatch failed in an earlier      *)
(*           invocation (history)                                          *)
(*   delivered  the pairs of folder and mailing-list position to which a   *)
(*           send succeeded in an earlier invocation whose dispatch for    *)
(*           the folder failed (history)                                   *)
(***************************************************************************)
DocsAt(st, path) == {d \in st.output : d.name = path.name /\ d.ts = path.ts}

Log(st, call) == [st EXCEPT !.calls = Append(@, call)]

Use(st, n) == [st EXCEPT !.used = @ + n]

\* _store_pdf_metadata, pdf_generator.py:184-205: the sidecar is written
\* next to the document; a failure is logged and swallowed
store_pdf_metadata(st, path, folder_name, env) ==
    LET st0 == Log(st, Call("sidecar", folder_name, 0, env.metaWrite, <<>>))
    IN  IF env.metaWrite
        THEN [st0 EXCEPT !.output = {[d EXCEPT !.meta = TRUE] : d \in DocsAt(st, path)}
                                       \cup (st.output \ DocsAt(st, path))]
        ELSE Use(st0, 1)

\* _create_pdf that raises when a document of the same name is already in
\* the output area
create_pdf_noOverwrite(st, cfg, t, pdf_name, png_files, folder_name, env) ==
    IF env.create = "fail" \/ (\E d \in st.output : d.name = pdf_name)
    THEN [pdf_path |-> NoPath,
          st |-> Use(Log(st, Call("render", folder_name, 0, FALSE, png_files)),
                     IF env.create = "fail" THEN 1 ELSE 0)]
    ELSE LET path == [name |-> pdf_name, ts |-> t]
             skipped == NamesOf(png_files) \cap env.skip
             pages == SelectSeq(png_files, LAMBDA f : f.name \notin env.skip)
             doc == [name |-> pdf_name, ts |-> t,
                     size |-> cfg.settings.max_attachment_size_mb * BytesPerMB + env.delta,
                     pdf |-> TRUE, meta |-> FALSE]
             st1 == [st EXCEPT !.output = @ \cup {doc}]
             \* the entry field of a "render" call holds the document's size
             st2 == Use(Log(st1, Call("render", folder_name, doc.size, TRUE, pages)),
                        Cardinality(skipped) + (IF env.delta = -1 THEN 0 ELSE 1))
         IN  [pdf_path |-> path, st |-> store_pdf_metadata(st2, path, folder_name, env)]

\* _create_pdf, pdf_generator.py:93-182: the document is named after the
\* document name and the time; an image whose rendering raises is skipped;
\* an existing file of the same path is overwritten
create_pdf(st, cfg, t, pdf_name, png_files, folder_name, env) ==
    IF env.create = "fail"
    THEN [pdf_path |-> NoPath,
          st |-> Use(Log(st, Call("render", folder_name, 0, FALSE, png_files)), 1)]
    ELSE LET path == [name |-> pdf_name, ts |-> t]
             old == DocsAt(st, path)
             skipped == NamesOf(png_files) \cap env.skip
             pages == SelectSeq(png_files, LAMBDA f : f.name \notin env.skip)
             doc == [name |-> pdf_name, ts |-> t,
                     size |-> cfg.settings.max_attachment_size_mb * BytesPerMB + env.delta,
                     pdf |-> TRUE,
                     meta |-> \E d \in old : d.meta]
             st1 == [st EXCEPT !.output = (@ \ old) \cup {doc}]
             \* the entry field of a "render" call holds the document's size
             st2 == Use(Log(st1, Call("render", folder_name, doc.size, TRUE, pages)),
                        Cardinality(skipped) + (IF env.delta = -1 THEN 0 ELSE 1))
         IN  [pdf_path |-> path, st |-> store_pdf_metadata(st2, path, folder_name, env)]

\* generate_pdf_for_folder that lets the folder's own file win over the ALL
\* folder's file of the same name
generate_pdf_for_folder_folderWins(st, cfg, t, folder_name, env) ==
    LET pdf_name == get_pdf_name_for_folder(cfg, folder_name)
        folder_pngs == get_png_files(st, folder_name)
        all_pngs == get_png_files(st, "ALL")
        all_png_files ==
            SelectSeq(all_pngs, LAMBDA f : f.name \notin NamesOf(folder_pngs)) \o folder_pngs
    IN  IF pdf_name = NoName \/ folder_name \notin st.dirs \/ all_png_files = <<>>
        THEN [pdf_path |-> NoPath, st |-> st]
        ELSE create_pdf(Log(st, Call("images", folder_name, 0, TRUE, all_png_files)),
                        cfg, t, pdf_name, all_png_files, folder_name, env)

\* generate_pdf_for_folder that returns the intended path also when
\* _create_pdf made no document
generate_pdf_for_folder_pathOnFailure(st, cfg, t, folder_name, env) ==
    LET pdf_name == get_pdf_name_for_folder(cfg, folder_name)
        folder_pngs == get_png_files(st, folder_name)
        all_pngs == get_png_files(st, "ALL")
        all_png_files ==
            all_pngs \o SelectSeq(folder_pngs, LAMBDA f : f.name \notin NamesOf(all_pngs))
        made == create_pdf(Log(st, Call("images", folder_name, 0, TRUE, all_png_files)),
                           cfg, t, pdf_name, all_png_files, folder_name, env)
    IN  IF pdf_name = NoName \/ folder_name \notin st.dirs \/ all_png_files = <<>>
        THEN [pdf_path |-> NoPath, st |-> st]
        ELSE [pdf_path |-> [name |-> pdf_name, ts |-> t], st |-> made.st]

\* generate_pdf_for_folder, pdf_generator.py:34-91
generate_pdf_for_folder(st, cfg, t, folder_name, env) ==
    LET pdf_name == get_pdf_name_for_folder(cfg, folder_name)
        folder_pngs == get_png_files(st, folder_name)
        all_pngs == get_png_files(st, "ALL")
        \* ALL files first, then the folder's files of other names
        all_png_files ==
            all_pngs \o SelectSeq(folder_pngs, LAMBDA f : f.name \notin NamesOf(all_pngs))
    IN  IF pdf_name = NoName \/ folder_name \notin st.dirs \/ all_png_files = <<>>
        THEN [pdf_path |-> NoPath, st |-> st]
        ELSE create_pdf(Log(st, Call("images", folder_name, 0, TRUE, all_png_files)),
                        cfg, t, pdf_name, all_png_files, folder_name, env)

\* validate_pdf_size that also rejects a document of exactly the maximum size
validate_pdf_size_ge(st, cfg, path) ==
    \A d \in DocsAt(st, path) :
        ~(d.size >= cfg.settings.max_attachment_size_mb * BytesPerMB)

\* validate_pdf_size, pdf_generator.py:244-260
validate_pdf_size(st, cfg, path) ==
    \A d \in DocsAt(st, path) :
        ~(d.size > cfg.settings.max_attachment_size_mb * BytesPerMB)

\* get_pdf_metadata, pdf_generator.py:207-218: the stored document name, or
\* NoName when the sidecar is absent or unreadable
get_pdf_metadata(st, path, env) ==
    IF \E d \in DocsAt(st, path) : d.meta
    THEN (IF env.metaRead THEN [pdf_name |-> path.name, st |-> st]
                          ELSE [pdf_name |-> NoName, st |-> Use(st, 1)])
    ELSE [pdf_name |-> NoName, st |-> st]

\* get_folders_with_new_pngs without the filter of pdf_generator.py:270
get_folders_with_new_pngs_withALL(st, cfg) ==
    {f \in get_all_folder_names(cfg) :
        f \in st.dirs /\ get_png_files(st, f) # <<>>}

\* get_folders_with_new_pngs, pdf_generator.py:262-279
get_folders_with_new_pngs(st, cfg) ==
    {f \in get_all_folder_names(cfg) \ {"ALL"} :
        f \in st.dirs /\ get_png_files(st, f) # <<>>}

(***************************************************************************)
(* EmailSender, email_sender.py                                            *)
(***************************************************************************)
\* the loop of email_sender.py:49-51, stopped at the first entry that fails
RECURSIVE send_loop_stopAtFailure(_, _, _, _, _)
send_loop_stopAtFailure(st, folder, entries, env, count) ==
    IF entries = <<>> THEN [st |-> st, success_count |-> count]
    ELSE LET i == Head(entries)
             st1 == Log(st, Call("send", folder, i, env.send[i], <<>>))
         IN  IF env.send[i]
             THEN send_loop_stopAtFailure(st1, folder, Tail(entries), env, count + 1)
             ELSE [st |-> Use(st1, 1), success_count |-> count]

\* the loop of email_sender.py:49-51 over the matching entries:
\* _send_single_email (email_sender.py:70-108) is called for each, its
\* result decided by the transport
RECURSIVE send_loop(_, _, _, _, _)
send_loop(st, folder, entries, env, count) ==
    IF entries = <<>> THEN [st |-> st, success_count |-> count]
    ELSE LET i == Head(entries)
             st1 == Log(st, Call("send", folder, i, env.send[i], <<>>))
         IN  IF env.send[i]
             THEN send_loop(st1, folder, Tail(entries), env, count + 1)
             ELSE send_loop(Use(st1, 1), folder, Tail(entries), env, count)

\* _validate_attachment_size, email_sender.py:365-384
validate_attachment_size(st, cfg, path) ==
    \A d \in DocsAt(st, path) :
        ~(d.size > cfg.settings.max_attachment_size_mb * BytesPerMB)

\* send_pdf_emails without the test for an empty list of mailing entries
send_pdf_emails_noEntriesOk(st, cfg, folder, path, pdf_name, env) ==
    LET mailing_entries == get_mailing_entries_for_pdf(cfg, pdf_name)
        sent == send_loop(st, folder, mailing_entries, env, 0)
        success == sent.success_count = Len(mailing_entries)
    IN  IF ~validate_attachment_size(st, cfg, path)
        THEN [ok |-> FALSE, st |-> Log(st, DispatchCall(folder, pdf_name, FALSE))]
        ELSE [ok |-> success, st |-> Log(sent.st, DispatchCall(folder, pdf_name, success))]

\* send_pdf_emails that leaves out the entries an earlier invocation already
\* delivered the folder's document to
send_pdf_emails_skipDelivered(st, cfg, folder, path, pdf_name, env) ==
    LET mailing_entries ==
            SelectSeq(get_mailing_entries_for_pdf(cfg, pdf_name),
                      LAMBDA i : <<folder, i>> \notin st.delivered)
        sent == send_loop(st, folder, mailing_entries, env, 0)
        success == sent.success_count = Len(mailing_entries)
    IN  IF get_mailing_entries_for_pdf(cfg, pdf_name) = <<>>
        THEN [ok |-> FALSE, st |-> Log(st, DispatchCall(folder, pdf_name, FALSE))]
        ELSE IF ~validate_attachment_size(st, cfg, path)
        THEN [ok |-> FALSE, st |-> Log(st, DispatchCall(folder, pdf_name, FALSE))]
        ELSE [ok |-> success, st |-> Log(sent.st, DispatchCall(folder, pdf_name, success))]

\* send_pdf_emails, email_sender.py:28-68
send_pdf_emails(st, cfg, folder, path, pdf_name, env) ==
    LET mailing_entries == get_mailing_entries_for_pdf(cfg, pdf_name)
        sent == send_loop(st, folder, mailing_entries, env, 0)
        success == sent.success_count = Len(mailing_entries)
    IN  IF mailing_entries = <<>>
        THEN [ok |-> FALSE, st |-> Log(st, DispatchCall(folder, pdf_name, FALSE))]
        ELSE IF ~validate_attachment_size(st, cfg, path)
        THEN [ok |-> FALSE, st |-> Log(st, DispatchCall(folder, pdf_name, FALSE))]
        ELSE [ok |-> success, st |-> Log(sent.st, DispatchCall(folder, pdf_name, success))]

(***************************************************************************)
(* FileManager, file_manager.py                                            *)
(***************************************************************************)
\* archive_sent_pdf that deletes the document from the output area when its
\* move fails
archive_sent_pdf_discardsOnFailure(st, cfg, t, folder, path, env) ==
    LET docs == {d \in DocsAt(st, path) : d.pdf}
        st0 == Log(st, Call("archive_pdf", folder, 0, TRUE, <<>>))
    IN  IF ~cfg.settings.archive_after_processing THEN [ok |-> TRUE, st |-> st0]
        ELSE IF docs = {} THEN [ok |-> FALSE, st |-> st0]
        ELSE IF env.archPdf = "pdf_fails"
        THEN [ok |-> FALSE, st |-> Use([st0 EXCEPT !.output = @ \ docs], 1)]
        ELSE LET d == CHOOSE x \in docs : TRUE
                 metaMoves == d.meta /\ env.archPdf # "meta_fails"
                 left == IF d.meta /\ ~metaMoves THEN {[d EXCEPT !.pdf = FALSE]} ELSE {}
                 moved == [kind |-> "pdf", name |-> d.name, from |-> folder,
                           ts |-> d.ts, at |-> t, meta |-> metaMoves]
                 st1 == [st0 EXCEPT !.output = (@ \ docs) \cup left,
                                    !.archive = @ \cup {moved}]
             IN  IF d.meta /\ ~metaMoves
                 THEN [ok |-> FALSE, st |-> Use(st1, 1)]
                 ELSE [ok |-> TRUE, st |-> st1]

\* archive_sent_pdf, file_manager.py:90-125: the document is moved, then the
\* sidecar if there is one
archive_sent_pdf(st, cfg, t, folder, path, env) ==
    LET docs == {d \in DocsAt(st, path) : d.pdf}
        st0 == Log(st, Call("archive_pdf", folder, 0, TRUE, <<>>))
    IN  IF ~cfg.settings.archive_after_processing THEN [ok |-> TRUE, st |-> st0]
        ELSE IF docs = {} THEN [ok |-> FALSE, st |-> st0]
        ELSE IF env.archPdf = "pdf_fails" THEN [ok |-> FALSE, st |-> Use(st0, 1)]
        ELSE LET d == CHOOSE x \in docs : TRUE
                 metaMoves == d.meta /\ env.archPdf # "meta_fails"
                 left == IF d.meta /\ ~metaMoves THEN {[d EXCEPT !.pdf = FALSE]} ELSE {}
                 moved == [kind |-> "pdf", name |-> d.name, from |-> folder,
                           ts |-> d.ts, at |-> t, meta |-> metaMoves]
                 st1 == [st0 EXCEPT !.output = (@ \ docs) \cup left,
                                    !.archive = @ \cup {moved}]
             IN  IF d.meta /\ ~metaMoves
                 THEN [ok |-> FALSE, st |-> Use(st1, 1)]
                 ELSE [ok |-> TRUE, st |-> st1]

\* archive_processed_pngs that moves only the folder's images that became
\* pages of the document
archive_processed_pngs_renderedOnly(st, cfg, t, folder_name, env) ==
    LET st0 == Log(st, Call("archive_pngs", folder_name, 0, TRUE, <<>>))
        png_files == IF folder_name \in st.dirs THEN st.input[folder_name] ELSE {}
        rendered == {n \in png_files :
                        \E k \in DOMAIN st.calls :
                            /\ st.calls[k].op = "render" /\ st.calls[k].folder = folder_name
                            /\ \E j \in DOMAIN st.calls[k].files :
                                  st.calls[k].files[j] = [name |-> n, src |-> folder_name]}
        archived == rendered \ env.stuck
        moved == {[kind |-> "png", name |-> n, from |-> folder_name,
                   ts |-> -1, at |-> t, meta |-> FALSE] : n \in archived}
        st1 == [st0 EXCEPT !.input[folder_name] = @ \ archived,
                           !.archive = @ \cup moved]
    IN  IF ~cfg.settings.archive_after_processing THEN [ok |-> TRUE, st |-> st0]
        ELSE IF folder_name \notin st.dirs THEN [ok |-> FALSE, st |-> st0]
        ELSE IF png_files = {} THEN [ok |-> TRUE, st |-> st0]
        ELSE [ok |-> archived = rendered,
              st |-> Use(st1, Cardinality(rendered \cap env.stuck))]

\* archive_processed_pngs without the test of file_manager.py:38-40 on
\* archive_after_processing
archive_processed_pngs_ignoresPolicy(st, cfg, t, folder_name, env) ==
    LET st0 == Log(st, Call("archive_pngs", folder_name, 0, TRUE, <<>>))
        png_files == IF folder_name \in st.dirs THEN st.input[folder_name] ELSE {}
        archived == png_files \ env.stuck
        moved == {[kind |-> "png", name |-> n, from |-> folder_name,
                   ts |-> -1, at |-> t, meta |-> FALSE] : n \in archived}
        st1 == [st0 EXCEPT !.input[folder_name] = @ \ archived,
                           !.archive = @ \cup moved]
    IN  IF folder_name \notin st.dirs THEN [ok |-> FALSE, st |-> st0]
        ELSE IF png_files = {} THEN [ok |-> TRUE, st |-> st0]
        ELSE [ok |-> archived = png_files,
              st |-> Use(st1, Cardinality(png_files \cap env.stuck))]

\* archive_processed_pngs that also moves the images of the ALL folder that
\* went into the document
archive_processed_pngs_withGlobal(st, cfg, t, folder_name, env) ==
    LET st0 == Log(st, Call("archive_pngs", folder_name, 0, TRUE, <<>>))
        png_files == IF folder_name \in st.dirs THEN st.input[folder_name] ELSE {}
        archived == png_files \ env.stuck
        global == IF "ALL" \in st.dirs THEN st.input["ALL"] ELSE {}
        moved == {[kind |-> "png", name |-> n, from |-> folder_name,
                   ts |-> -1, at |-> t, meta |-> FALSE] : n \in archived \cup global}
        st1 == [st0 EXCEPT !.input[folder_name] = @ \ archived,
                           !.input["ALL"] = {},
                           !.archive = @ \cup moved]
    IN  IF ~cfg.settings.archive_after_processing THEN [ok |-> TRUE, st |-> st0]
        ELSE IF folder_name \notin st.dirs THEN [ok |-> FALSE, st |-> st0]
        ELSE IF png_files = {} THEN [ok |-> TRUE, st |-> st0]
        ELSE [ok |-> archived = png_files,
              st |-> Use(st1, Cardinality(png_files \cap env.stuck))]

\* archive_processed_pngs, file_manager.py:35-88: every image found in the
\* folder is moved to a batch folder of the archive
archive_processed_pngs(st, cfg, t, folder_name, env) ==
    LET st0 == Log(st, Call("archive_pngs", folder_name, 0, TRUE, <<>>))
        png_files == IF folder_name \in st.dirs THEN st.input[folder_name] ELSE {}
        archived == png_files \ env.stuck
        moved == {[kind |-> "png", name |-> n, from |-> folder_name,
                   ts |-> -1, at |-> t, meta |-> FALSE] : n \in archived}
        st1 == [st0 EXCEPT !.input[folder_name] = @ \ archived,
                           !.archive = @ \cup moved]
    IN  IF ~cfg.settings.archive_after_processing THEN [ok |-> TRUE, st |-> st0]
        ELSE IF folder_name \notin st.dirs THEN [ok |-> FALSE, st |-> st0]
        ELSE IF png_files = {} THEN [ok |-> TRUE, st |-> st0]
        ELSE [ok |-> archived = png_files,
              st |-> Use(st1, Cardinality(png_files \cap env.stuck))]

MinutesPerDay == 1440

\* a path below Archive: the sequence of its directory names; <<>> is
\* Archive itself
IsUnder(p, d) == Len(d) <= Len(p) /\ SubSeq(p, 1, Len(d)) = d

Parent(p) == SubSeq(p, 1, Len(p) - 1)

\* a file below Archive: the directory it lies in, its name, its st_mtime
ArchivedFile(dir, name, mtime) == [dir |-> dir, name |-> name, mtime |-> mtime]

\* the directories FileManager.__init__ makes, file_manager.py:26-33
png_archive_dir == <<"PNGs">>
pdf_archive_dir == <<"PDFs">>
EmptyArchive == [dirs |-> {png_archive_dir, pdf_archive_dir}, files |-> {}]

\* _cleanup_directory, file_manager.py:165-184: the files of the tree that
\* are left
cleanup_directory(tree, directory, cutoff_date) ==
    IF directory \notin tree.dirs THEN tree.files
    ELSE {f \in tree.files : ~(IsUnder(f.dir, directory) /\ f.mtime < cutoff_date)}

\* rmdir of every directory of one depth that holds no file and no directory
RECURSIVE remove_empty_from(_, _, _)
remove_empty_from(dirs, files, depth) ==
    IF depth = 0 THEN dirs
    ELSE LET empty == {d \in dirs : /\ Len(d) = depth
                                    /\ ~\E f \in files : f.dir = d
                                    /\ ~\E q \in dirs : q # <<>> /\ Parent(q) = d}
         IN  remove_empty_from(dirs \ empty, files, depth - 1)

\* _cleanup_empty_directories, file_manager.py:186-209: the directories
\* left, the deepest tried first (the sort of line 195)
cleanup_empty_directories(dirs, files) ==
    LET deepest == IF dirs = {} THEN 0
                   ELSE CHOOSE n \in {Len(d) : d \in dirs} : \A d \in dirs : Len(d) <= n
    IN  remove_empty_from(dirs, files, deepest)

\* cleanup_old_archives, file_manager.py:127-163
cleanup_old_archives(tree, cfg, t) ==
    LET cutoff_date == t - cfg.settings.log_retention_days * MinutesPerDay
        png_cleaned == cleanup_directory(tree, png_archive_dir, cutoff_date)
        pdf_cleaned == cleanup_directory([tree EXCEPT !.files = png_cleaned],
                                         pdf_archive_dir, cutoff_date)
    IN  [dirs |-> cleanup_empty_directories(tree.dirs, pdf_cleaned), files |-> pdf_cleaned]

(***************************************************************************)
(* BIMailerOrchestrator, main.py                                           *)
(***************************************************************************)
\* the result record of main.py:96-104
Result(folder_name) ==
    [folder_name |-> folder_name, pdf_created |-> FALSE, emails_sent |-> FALSE,
     files_archived |-> FALSE, error |-> NoName, pdf_path |-> NoPath]

\* step 5 of _process_single_folder with the test on emails_success dropped
archive_step_always(st, cfg, t, folder_name, pdf_path, emails_success, result, env) ==
    LET pdf == archive_sent_pdf(st, cfg, t, folder_name, pdf_path, env)
        png == archive_processed_pngs(pdf.st, cfg, t, folder_name, env)
        archived == pdf.ok /\ png.ok
    IN  [result |-> [result EXCEPT !.files_archived = archived,
                        !.error = IF ~archived THEN "File archiving failed" ELSE @],
         st |-> png.st]

\* step 5 of _process_single_folder with files_archived set when either of
\* the two archive calls succeeds
archive_step_eitherOk(st, cfg, t, folder_name, pdf_path, emails_success, result, env) ==
    IF emails_success
    THEN LET pdf == archive_sent_pdf(st, cfg, t, folder_name, pdf_path, env)
             png == archive_processed_pngs(pdf.st, cfg, t, folder_name, env)
             archived == pdf.ok \/ png.ok
         IN  [result |-> [result EXCEPT !.files_archived = archived,
                             !.error = IF ~archived THEN "File archiving failed" ELSE @],
              st |-> png.st]
    ELSE [result |-> result, st |-> st]

\* step 5 of _process_single_folder, main.py:138-151
archive_step(st, cfg, t, folder_name, pdf_path, emails_success, result, env) ==
    IF emails_success
    THEN LET pdf == archive_sent_pdf(st, cfg, t, folder_name, pdf_path, env)
             png == archive_processed_pngs(pdf.st, cfg, t, folder_name, env)
             archived == pdf.ok /\ png.ok
         IN  [result |-> [result EXCEPT !.files_archived = archived,
                             !.error = IF ~archived THEN "File archiving failed" ELSE @],
              st |-> png.st]
    ELSE [result |-> result, st |-> st]

\* the handler of main.py:162-166: the exception is recorded in the result
processing_exception(out) ==
    [result |-> [out.result EXCEPT !.error = "Processing exception"],
     st |-> Use(Log(out.st, Call("exception", out.result.folder_name, 0, FALSE, <<>>)), 1)]

\* _process_single_folder without the return of main.py:120-122 after a failed
\* size validation
process_single_folder_noSizeReturn(st, cfg, t, folder_name, env) ==
    LET result == Result(folder_name)
        gen == generate_pdf_for_folder(st, cfg, t, folder_name, env)
        pdf_path == gen.pdf_path
        r1 == [result EXCEPT !.pdf_created = TRUE, !.pdf_path = pdf_path]
        size_ok == validate_pdf_size(gen.st, cfg, pdf_path)
        sized == Log(gen.st, Call("size", folder_name, 0, size_ok, <<>>))
        md == get_pdf_metadata(sized, pdf_path, env)
        pdf_name == IF md.pdf_name = NoName THEN folder_name ELSE md.pdf_name
        mail == send_pdf_emails(md.st, cfg, folder_name, pdf_path, pdf_name, env)
        r2 == [r1 EXCEPT !.emails_sent = mail.ok,
                         !.error = IF ~mail.ok THEN "Email sending failed" ELSE @]
        done == archive_step(mail.st, cfg, t, folder_name, pdf_path, mail.ok, r2, env)
    IN  IF env.crash = "start"
        THEN processing_exception([result |-> result, st |-> st])
        ELSE IF pdf_path = NoPath
        THEN [result |-> [result EXCEPT !.error = "PDF generation failed"], st |-> gen.st]
        ELSE IF env.crash = "end"
        THEN processing_exception(done)
        ELSE done

\* _process_single_folder without the assignment of main.py:134-135 after a
\* failed dispatch
process_single_folder_quietDispatch(st, cfg, t, folder_name, env) ==
    LET result == Result(folder_name)
        gen == generate_pdf_for_folder(st, cfg, t, folder_name, env)
        pdf_path == gen.pdf_path
        r1 == [result EXCEPT !.pdf_created = TRUE, !.pdf_path = pdf_path]
        size_ok == validate_pdf_size(gen.st, cfg, pdf_path)
        sized == Log(gen.st, Call("size", folder_name, 0, size_ok, <<>>))
        md == get_pdf_metadata(sized, pdf_path, env)
        pdf_name == IF md.pdf_name = NoName THEN folder_name ELSE md.pdf_name
        mail == send_pdf_emails(md.st, cfg, folder_name, pdf_path, pdf_name, env)
        r2 == [r1 EXCEPT !.emails_sent = mail.ok]
        done == archive_step(mail.st, cfg, t, folder_name, pdf_path, mail.ok, r2, env)
    IN  IF env.crash = "start"
        THEN processing_exception([result |-> result, st |-> st])
        ELSE IF pdf_path = NoPath
        THEN [result |-> [result EXCEPT !.error = "PDF generation failed"], st |-> gen.st]
        ELSE IF ~size_ok
        THEN [result |-> [r1 EXCEPT !.error = "PDF size validation failed"], st |-> sized]
        ELSE IF env.crash = "end"
        THEN processing_exception(done)
        ELSE done

\* _process_single_folder, main.py:94-166
process_single_folder(st, cfg, t, folder_name, env) ==
    LET result == Result(folder_name)
        gen == generate_pdf_for_folder(st, cfg, t, folder_name, env)
        pdf_path == gen.pdf_path
        r1 == [result EXCEPT !.pdf_created = TRUE, !.pdf_path = pdf_path]
        size_ok == validate_pdf_size(gen.st, cfg, pdf_path)
        sized == Log(gen.st, Call("size", folder_name, 0, size_ok, <<>>))
        md == get_pdf_metadata(sized, pdf_path, env)
        \* main.py:126-128: without metadata the folder name stands in
        pdf_name == IF md.pdf_name = NoName THEN folder_name ELSE md.pdf_name
        mail == send_pdf_emails(md.st, cfg, folder_name, pdf_path, pdf_name, env)
        r2 == [r1 EXCEPT !.emails_sent = mail.ok,
                         !.error = IF ~mail.ok THEN "Email sending failed" ELSE @]
        done == archive_step(mail.st, cfg, t, folder_name, pdf_path, mail.ok, r2, env)
    IN  IF env.crash = "start"
        THEN processing_exception([result |-> result, st |-> st])
        ELSE IF pdf_path = NoPath
        THEN [result |-> [result EXCEPT !.error = "PDF generation failed"], st |-> gen.st]
        ELSE IF ~size_ok
        THEN [result |-> [r1 EXCEPT !.error = "PDF size validation failed"], st |-> sized]
        ELSE IF env.crash = "end"
        THEN processing_exception(done)
        ELSE done

\* a minute passes
Tick ==
    /\ now < MaxTime
    /\ now' = now + 1
    /\ UNCHANGED <<timeout_minutes, lock_file>>

(***************************************************************************)
(* main(), main.py:308-372, one invocation after another                   *)
(***************************************************************************)
\* invocations of main() in one behaviour
MaxRuns == 2
\* non-nominal environment outcomes in one behaviour
MaxEvents == 1

\* the environments that fit in what is left of MaxEvents
EnvsByBudget ==
    {<<n, {e : e \in {x \in Envs : Events(x) <= n}}>> : n \in 0..MaxEvents}

EnvsWithin(n) == (CHOOSE r \in EnvsByBudget : r[1] = n)[2]

\* acquire_lock run without interruption, utils.py:112-141
acquire_lock(file, p, t, tmo) ==
    IF file # NoFile /\ ~IsStale(file, t, tmo)
    THEN [ok |-> FALSE, file |-> file]
    ELSE [ok |-> TRUE, file |-> NewMarker(p, t)]

\* main.py:358-363: the exit code of a full run
RunExitCode(results) ==
    LET successful_folders ==
            Cardinality({i \in DOMAIN results : results[i].emails_sent})
        total_folders == Len(results)
    IN  IF successful_folders = total_folders THEN 0 ELSE 1

\* the folders in the order of the mapping's keys
FolderOrder == <<"a", "B", "ALL">>

\* main() ends: __exit__ releases the lock if the with statement was entered
Leave(code) ==
    /\ mpc' = "ended"
    /\ exit_code' = code
    /\ lock_file' = IF acquired THEN release_lock(lock_file).file ELSE lock_file

\* the command lines main() is started with: a full run, or "folder:NAME"
CommandLines ==
    {<<"run", "">>, <<"folder", "a">>, <<"folder", "A">>, <<"folder", "B">>,
     <<"folder", "ALL">>}

\* str.lower() of main.py:313 on the names of the model
Lower(name) ==
    CASE name = "A" -> "a" [] name = "B" -> "b" [] name = "ALL" -> "all"
      [] OTHER -> name

\* the folders for which send_pdf_emails returned False
DispatchFailed(calls) ==
    {calls[i].folder : i \in {j \in DOMAIN calls : calls[j].op = "dispatch" /\ ~calls[j].ok}}

\* the folder and mailing-list position of every _send_single_email call
\* that returned True while send_pdf_emails as a whole returned False
Delivered(calls) ==
    {<<calls[i].folder, calls[i].entry>> :
        i \in {j \in DOMAIN calls : /\ calls[j].op = "send" /\ calls[j].ok
                                    /\ calls[j].folder \in DispatchFailed(calls)}}

\* main() is started with a command line
Start ==
    /\ mpc \in {"idle", "ended"}
    /\ runs < MaxRuns
    /\ runs' = runs + 1
    /\ \E argv \in CommandLines : command' = <<argv[1], Lower(argv[2])>>
    /\ mpc' = "init"
    /\ disk' = [disk EXCEPT !.calls = <<>>,
                             !.dispatch_failed = @ \cup DispatchFailed(disk.calls),
                             !.delivered = @ \cup Delivered(disk.calls)]
    /\ eligible' = <<>>
    /\ todo' = <<>>
    /\ processing_results' = <<>>
    /\ summaries' = 0
    /\ error_notifications' = 0
    /\ cleanups' = 0
    /\ acquired' = FALSE
    /\ exit_code' = -1
    /\ UNCHANGED <<now, timeout_minutes, lock_file, config>>
    /\ UNCHANGED <<procVars, mailing_rows, archive_tree, mail_attempts, recipients_cell,
                   valid_emails>>

\* BIMailerOrchestrator.__init__ that goes on after a failed validation
OrchestratorInit_ignoresErrors ==
    /\ mpc = "init"
    /\ mpc' = "acquire"
    /\ UNCHANGED <<now, timeout_minutes, lock_file, config, disk, command, eligible,
                   todo, processing_results, summaries, error_notifications,
                   cleanups, acquired, exit_code, runs>>
    /\ UNCHANGED <<procVars, mailing_rows, archive_tree, mail_attempts, recipients_cell,
                   valid_emails>>

\* BIMailerOrchestrator.__init__, main.py:23-52, called at main.py:334, 351:
\* a failed validation raises RuntimeError, which main.py:369-372 turns
\* into exit code 1
OrchestratorInit ==
    /\ mpc = "init"
    /\ IF validate_configuration(config) # {}
       THEN /\ Leave(1)
       ELSE /\ mpc' = "acquire"
            /\ UNCHANGED <<lock_file, exit_code>>
    /\ UNCHANGED <<now, timeout_minutes, config, disk, command, eligible, todo,
                   processing_results, summaries, error_notifications,
                   cleanups, acquired, runs>>
    /\ UNCHANGED <<procVars, mailing_rows, archive_tree, mail_attempts, recipients_cell,
                   valid_emails>>

\* ProcessingLock.__enter__, utils.py:152-156, at main.py:336, 354
EnterLock ==
    /\ mpc = "acquire"
    /\ LET got == acquire_lock(lock_file, runs, now, timeout_minutes)
       IN  IF got.ok
           THEN /\ lock_file' = got.file
                /\ acquired' = TRUE
                /\ mpc' = IF command[1] = "run" THEN "discover" ELSE "specific"
                /\ UNCHANGED exit_code
           ELSE /\ Leave(1)
                /\ UNCHANGED acquired
    /\ UNCHANGED <<now, timeout_minutes, config, disk, command, eligible, todo,
                   processing_results, summaries, error_notifications, cleanups, runs>>
    /\ UNCHANGED <<procVars, mailing_rows, archive_tree, mail_attempts, recipients_cell,
                   valid_emails>>

\* _send_error_notification, main.py:187-215
send_error_notification ==
    error_notifications' =
        IF config.settings.send_error_notifications
        THEN error_notifications + 1 ELSE error_notifications

\* run_full_processing, main.py:54-74: discovery; no folder: return {}
\* (main.py:65-67); an exception is reported and raised again (main.py:89-92)
Discover ==
    /\ mpc = "discover"
    /\ \/ LET found == get_folders_with_new_pngs(disk, config)
              folders_to_process == SelectSeq(FolderOrder, LAMBDA f : f \in found)
          IN  /\ eligible' = folders_to_process
              /\ todo' = folders_to_process
              /\ IF folders_to_process = <<>>
                 THEN Leave(RunExitCode(<<>>))
                 ELSE /\ mpc' = "folders"
                      /\ UNCHANGED <<lock_file, exit_code>>
              /\ UNCHANGED <<disk, error_notifications>>
       \/ /\ disk.used < MaxEvents
          /\ disk' = Use(disk, 1)
          /\ send_error_notification
          /\ Leave(1)
          /\ UNCHANGED <<eligible, todo>>
    /\ UNCHANGED <<now, timeout_minutes, config, command, processing_results,
                   summaries, cleanups, acquired, runs>>
    /\ UNCHANGED <<procVars, mailing_rows, archive_tree, mail_attempts, recipients_cell,
                   valid_emails>>

\* the loop of main.py:72-74 that stops at the first folder with an error
ProcessNext_stopsOnError ==
    /\ mpc = "folders"
    /\ todo # <<>>
    /\ \E env \in EnvsWithin(MaxEvents - disk.used) :
          LET out == process_single_folder(disk, config, now, Head(todo), env)
          IN  /\ out.st.used <= MaxEvents
              /\ disk' = out.st
              /\ processing_results' = Append(processing_results, out.result)
              /\ todo' = IF out.result.error # NoName THEN <<>> ELSE Tail(todo)
    /\ UNCHANGED <<now, timeout_minutes, lock_file, config, mpc, command, eligible,
                   summaries, error_notifications, cleanups, acquired, exit_code, runs>>
    /\ UNCHANGED <<procVars, mailing_rows, archive_tree, mail_attempts, recipients_cell,
                   valid_emails>>

\* one turn of the loop of main.py:72-74
ProcessNext ==
    /\ mpc = "folders"
    /\ todo # <<>>
    /\ \E env \in EnvsWithin(MaxEvents - disk.used) :
          LET out == process_single_folder(disk, config, now, Head(todo), env)
          IN  /\ out.st.used <= MaxEvents
              /\ disk' = out.st
              /\ processing_results' = Append(processing_results, out.result)
              /\ todo' = Tail(todo)
    /\ UNCHANGED <<now, timeout_minutes, lock_file, config, mpc, command, eligible,
                   summaries, error_notifications, cleanups, acquired, exit_code, runs>>
    /\ UNCHANGED <<procVars, mailing_rows, archive_tree, mail_attempts, recipients_cell,
                   valid_emails>>

\* _send_admin_summary, main.py:76-77, 168-185
SendAdminSummary ==
    /\ mpc = "folders"
    /\ todo = <<>>
    /\ summaries' = IF config.settings.send_summary_email THEN summaries + 1 ELSE summaries
    /\ mpc' = "cleanup"
    /\ UNCHANGED <<now, timeout_minutes, lock_file, config, disk, command, eligible, todo,
                   processing_results, error_notifications, cleanups, acquired,
                   exit_code, runs>>
    /\ UNCHANGED <<procVars, mailing_rows, archive_tree, mail_attempts, recipients_cell,
                   valid_emails>>

\* days a rendered document is kept in the output area, main.py:226
keep_days == 7

\* cleanup_old_pdfs, pdf_generator.py:281-302
cleanup_old_pdfs(output, t) ==
    {d \in output : ~(d.ts < t - keep_days * MinutesPerDay)}

\* _perform_cleanup, main.py:79-87, 217-231, and the return of the results;
\* the sweep of the archive (CleanupOldArchives) finds nothing to delete
\* here: within MaxTime no archived file gets as old as the retention
PerformCleanup ==
    /\ mpc = "cleanup"
    /\ cleanups' = cleanups + 1
    /\ disk' = [disk EXCEPT !.output = cleanup_old_pdfs(@, now)]
    /\ Leave(RunExitCode(processing_results))
    /\ UNCHANGED <<now, timeout_minutes, config, command, eligible, todo,
                   processing_results, summaries, error_notifications, acquired, runs>>
    /\ UNCHANGED <<procVars, mailing_rows, archive_tree, mail_attempts, recipients_cell,
                   valid_emails>>

\* process_specific_folder, main.py:280-305, and main.py:337-344
ProcessSpecific ==
    /\ mpc = "specific"
    /\ LET folder_name == command[2]
       IN  IF folder_name \notin get_all_folder_names(config)
           THEN /\ Leave(1)
                /\ UNCHANGED <<disk, processing_results, error_notifications>>
           ELSE \E env \in EnvsWithin(MaxEvents - disk.used) :
                   LET out == process_single_folder(disk, config, now, folder_name, env)
                   IN  /\ out.st.used <= MaxEvents
                       /\ disk' = out.st
                       /\ processing_results' = <<out.result>>
                       /\ IF out.result.error # NoName
                          THEN send_error_notification /\ Leave(1)
                          ELSE UNCHANGED error_notifications /\ Leave(0)
    /\ UNCHANGED <<now, timeout_minutes, config, command, eligible, todo,
                   summaries, cleanups, acquired, runs>>
    /\ UNCHANGED <<procVars, mailing_rows, archive_tree, mail_attempts, recipients_cell,
                   valid_emails>>

\* KeyboardInterrupt while main() runs, main.py:365-367
Interrupt ==
    /\ mpc \in {"init", "acquire", "discover", "folders", "cleanup", "specific"}
    /\ Leave(130)
    /\ UNCHANGED <<now, timeout_minutes, config, disk, command, eligible, todo,
                   processing_results, summaries, error_notifications,
                   cleanups, acquired, runs>>
    /\ UNCHANGED <<procVars, mailing_rows, archive_tree, mail_attempts, recipients_cell,
                   valid_emails>>

Init ==
    /\ now = 0
    /\ config \in Configs
    /\ mailing_rows = config.mailing_list
    /\ archive_tree = EmptyArchive
    /\ mail_attempts = <<>>
    /\ recipients_cell = [kind |-> "str", tokens |-> <<>>]
    /\ valid_emails = <<>>
    /\ timeout_minutes = config.settings.processing_lock_timeout_minutes
    /\ lock_file \in {NoFile, NewMarker(0, 0)}
    /\ pc = [p \in Invocations |-> "idle"]
    /\ acq = [p \in Invocations |-> "none"]
    /\ seenAge = [p \in Invocations |-> -1]
    /\ interfered = [p \in Invocations |-> FALSE]
    /\ entered = [p \in Invocations |-> FALSE]
    /\ releaseCalls = [p \in Invocations |-> 0]
    /\ bodyExit = [p \in Invocations |-> "none"]
    /\ \E b \in {{}, {"y.png"}}, g \in {{}, {"x.png"}} :
          disk = [dirs |-> IF b = {} THEN {"a", "ALL"} ELSE {"a", "B", "ALL"},
                input |-> [f \in {"a", "B", "ALL"} |->
                             CASE f = "a" -> {"x.png", "y.png"} [] f = "B" -> b [] f = "ALL" -> g],
                output |-> {}, archive |-> {}, calls |-> <<>>, used |-> 0,
                dispatch_failed |-> {}, delivered |-> {}]
    /\ mpc = "idle"
    /\ command = <<"run", "">>
    /\ eligible = <<>>
    /\ todo = <<>>
    /\ processing_results = <<>>
    /\ summaries = 0
    /\ error_notifications = 0
    /\ cleanups = 0
    /\ acquired = FALSE
    /\ exit_code = -1
    /\ runs = 0

\* time passes between two invocations
TimePasses ==
    /\ mpc \in {"idle", "ended"}
    /\ Tick
    /\ UNCHANGED mainVars
    /\ UNCHANGED procVars

Next ==
    \/ TimePasses
    \/ Start
    \/ OrchestratorInit
    \/ EnterLock
    \/ Discover
    \/ ProcessNext
    \/ SendAdminSummary
    \/ PerformCleanup
    \/ ProcessSpecific
    \/ Interrupt

Spec == Init /\ [][Next]_vars

(***************************************************************************)
(* Loading and validating the configuration, config_manager.py:61-278      *)
(***************************************************************************)
\* rows of mailing_list.csv in one configuration
MaxRows == 2

\* an address token of a Recipients cell, by the parts the pattern of
\* utils.py:198 looks at: the lengths of the local part, of the domain and
\* of the last label, and whether there is an "@"
Address(local, at, domain, tld) ==
    [local |-> local, at |-> at, domain |-> domain, tld |-> tld, pad |-> FALSE]

\* the same token with white space around it
Padded(a) == [a EXCEPT !.pad = TRUE]

\* str.strip() of utils.py:211 on a token
Strip(a) == [a EXCEPT !.pad = FALSE]

\* a value of the Recipients column as pandas hands it over: None, a float
\* (NaN for an empty field), or a string, given by its pieces between the
\* ";" delimiters; a string without any piece is the empty string
Cell(tokens) == [kind |-> "str", tokens |-> tokens]
NoCell == [kind |-> "None", tokens |-> <<>>]
NaNCell == [kind |-> "float", tokens |-> <<>>]

addrGood == Address(1, TRUE, 1, 2)
addrShortTld == Address(1, TRUE, 1, 1)
addrOther == Address(2, TRUE, 1, 2)

\* validate_email, utils.py:195-199
validate_email(a) == ~a.pad /\ a.local >= 1 /\ a.at /\ a.domain >= 1 /\ a.tld >= 2

\* the token without a character
blankToken == Address(0, FALSE, 0, 0)

\* split_email_list that returns nothing when one token is invalid
split_email_list_allOrNothing(email_string) ==
    LET emails == [i \in DOMAIN email_string.tokens |-> Strip(email_string.tokens[i])]
    IN  IF email_string.kind # "str" THEN <<>>
        ELSE IF \A i \in DOMAIN emails : validate_email(emails[i]) THEN emails
        ELSE <<>>

\* split_email_list, utils.py:202-221: None and floats give the empty list
\* (205-206), so do the empty and the all-blank string (210-211); otherwise
\* the pieces are stripped and the valid ones kept, in order (213-214).  The
\* string "nan" (210) has one piece without "@": the early return gives
\* what the filter gives.
split_email_list(email_string) ==
    LET emails == [i \in DOMAIN email_string.tokens |-> Strip(email_string.tokens[i])]
    IN  IF email_string.kind # "str" THEN <<>>
        ELSE IF email_string.tokens = <<>> THEN <<>>
        ELSE IF Len(emails) = 1 /\ emails[1] = blankToken THEN <<>>
        ELSE SelectSeq(emails, validate_email)

\* a row of mailing_list.csv
Row(pdf, tokens) == [pdf_name |-> pdf, recipients |-> tokens]

\* _load_mailing_list that keeps the rows without a valid recipient
load_mailing_list_keepsAll(rows) ==
    [i \in DOMAIN rows |-> Entry(rows[i].pdf_name, split_email_list(rows[i].recipients))]

\* _load_mailing_list, config_manager.py:189-205: a row without a valid
\* recipient is logged and skipped
load_mailing_list(rows) ==
    LET parsed == [i \in DOMAIN rows |->
                     Entry(rows[i].pdf_name, split_email_list(rows[i].recipients))]
    IN  SelectSeq(parsed, LAMBDA e : e.recipients # <<>>)

\* the document names of the CSV files of the model; "RX" is mapped by no folder
DocNames == {"RA", "RB", "Global Headers"}
RowCells == {Cell(<<>>), Cell(<<addrShortTld>>), Cell(<<addrGood>>), Cell(<<addrShortTld, addrGood>>)}
Rows == {Row(n, c) : n \in DocNames \cup {"RX"}, c \in RowCells}
RowLists == UNION {[1..n -> Rows] : n \in 0..MaxRows}
Mappings == UNION {[d -> DocNames] : d \in SUBSET {"a", "B", "ALL"}}

\* ConfigManager.__init__ and _load_all_configs, config_manager.py:64-98,
\* called at main.py:31
LoadConfig ==
    /\ mpc = "idle"
    /\ config' = [config EXCEPT !.mailing_list = load_mailing_list(mailing_rows)]
    /\ mpc' = "init"
    /\ UNCHANGED <<now, timeout_minutes, lock_file, mailing_rows, archive_tree, mail_attempts,
                   recipients_cell, valid_emails,
                   disk, command,
                   eligible,
                   todo, processing_results, summaries, error_notifications,
                   cleanups, acquired, exit_code, runs>>
    /\ UNCHANGED procVars

ConfigInit ==
    /\ now = 0
    /\ mailing_rows \in RowLists
    /\ archive_tree = EmptyArchive
    /\ mail_attempts = <<>>
    /\ recipients_cell = Cell(<<>>)
    /\ valid_emails = <<>>
    /\ \E m \in Mappings, st \in {BaseSettings, cfgNoAdmin.settings} :
          config = [settings |-> st, pdf_names_mapping |-> m, mailing_list |-> <<>>]
    /\ timeout_minutes = config.settings.processing_lock_timeout_minutes
    /\ lock_file = NoFile
    /\ pc = [p \in Invocations |-> "idle"]
    /\ acq = [p \in Invocations |-> "none"]
    /\ seenAge = [p \in Invocations |-> -1]
    /\ interfered = [p \in Invocations |-> FALSE]
    /\ entered = [p \in Invocations |-> FALSE]
    /\ releaseCalls = [p \in Invocations |-> 0]
    /\ bodyExit = [p \in Invocations |-> "none"]
    /\ disk = [dirs |-> {}, input |-> [f \in {"a", "B", "ALL"} |-> {}], output |-> {},
               archive |-> {}, calls |-> <<>>, used |-> 0, dispatch_failed |-> {}, delivered |-> {}]
    /\ mpc = "idle"
    /\ command = <<"run", "">>
    /\ eligible = <<>>
    /\ todo = <<>>
    /\ processing_results = <<>>
    /\ summaries = 0
    /\ error_notifications = 0
    /\ cleanups = 0
    /\ acquired = FALSE
    /\ exit_code = -1
    /\ runs = 1

ConfigNext ==
    \/ LoadConfig
    \/ OrchestratorInit

SpecConfig == ConfigInit /\ [][ConfigNext]_vars

(***************************************************************************)
(* The retention sweep of the archive, file_manager.py:127-209             *)
(***************************************************************************)
\* the cutoff of the sweep at time 0 with the retention of BaseSettings
SweepCutoff == 0 - BaseSettings.log_retention_days * MinutesPerDay

\* st_mtime of the files of the model: before, at and after the cutoff
SweepTimes == {SweepCutoff - 1, SweepCutoff, 0}

\* where the files of the model lie: the batch folder of
\* archive_processed_pngs (file_manager.py:59-64), the month folder of
\* archive_sent_pdf (file_manager.py:102), and Archive itself
BatchDir == <<"PNGs", "2024", "01", "a_1">>
MonthDir == <<"PDFs", "2024", "01">>
FilePlaces == {<<BatchDir, "x.png">>, <<MonthDir, "RA.pdf">>, <<<<>>, "notes.txt">>}

\* directories that may be there without a file in them
SpareDirs == {<<"PNGs", "2024", "02">>, <<"Other">>}

\* a directory and the directories above it, Archive itself left out
Ancestors(d) == {SubSeq(d, 1, n) : n \in 1..Len(d)}

ArchiveTrees ==
    {[dirs |-> EmptyArchive.dirs \cup spare \cup UNION {Ancestors(f.dir) : f \in files},
      files |-> files] :
        spare \in SUBSET SpareDirs,
        files \in {fs \in SUBSET {ArchivedFile(pl[1], pl[2], m) : pl \in FilePlaces, m \in SweepTimes} :
                      \A f, g \in fs : (f.dir = g.dir /\ f.name = g.name) => f = g}}

\* FileManager.cleanup_old_archives called at main.py:223
CleanupOldArchives ==
    /\ mpc = "cleanup"
    /\ archive_tree' = cleanup_old_archives(archive_tree, config, now)
    /\ mpc' = "swept"
    /\ UNCHANGED <<now, timeout_minutes, lock_file, mailing_rows, mail_attempts, recipients_cell,
                   valid_emails, config,
                   disk, command,
                   eligible, todo, processing_results, summaries, error_notifications,
                   cleanups, acquired, exit_code, runs>>
    /\ UNCHANGED procVars

SweepInit ==
    /\ now = 0
    /\ config = cfgGood
    /\ mailing_rows = config.mailing_list
    /\ archive_tree \in ArchiveTrees
    /\ mail_attempts = <<>>
    /\ recipients_cell = Cell(<<>>)
    /\ valid_emails = <<>>
    /\ timeout_minutes = config.settings.processing_lock_timeout_minutes
    /\ lock_file = NewMarker(1, 0)
    /\ pc = [p \in Invocations |-> "idle"]
    /\ acq = [p \in Invocations |-> "none"]
    /\ seenAge = [p \in Invocations |-> -1]
    /\ interfered = [p \in Invocations |-> FALSE]
    /\ entered = [p \in Invocations |-> FALSE]
    /\ releaseCalls = [p \in Invocations |-> 0]
    /\ bodyExit = [p \in Invocations |-> "none"]
    /\ disk = [dirs |-> {}, input |-> [f \in {"a", "B", "ALL"} |-> {}], output |-> {},
               archive |-> {}, calls |-> <<>>, used |-> 0, dispatch_failed |-> {}, delivered |-> {}]
    /\ mpc = "cleanup"
    /\ command = <<"run", "">>
    /\ eligible = <<>>
    /\ todo = <<>>
    /\ processing_results = <<>>
    /\ summaries = 0
    /\ error_notifications = 0
    /\ cleanups = 0
    /\ acquired = TRUE
    /\ exit_code = -1
    /\ runs = 1

SweepNext == CleanupOldArchives

SpecSweep == SweepInit /\ [][SweepNext]_vars


(***************************************************************************)
(* _send_single_email and its transports, email_sender.py:70-314           *)
(***************************************************************************)
\* _send_single_email calls in one behaviour
MaxSends == 2

\* what the environment does during one _send_single_email call
MailerEnvs ==
    [content : {"ok", "raises"},                  \* subject and body generation
     os      : {"nt", "posix"},                   \* os.name
     outlook : {"sent", "no_pywin32", "raises"},  \* Outlook automation
     client  : {"opened", "not_opened", "raises"},\* webbrowser.open on the mailto URL
     smtp    : BOOLEAN]                           \* the SMTP session succeeds

\* the configuration of cfgGood with the default mailer selected
cfgDefaultMailer == [cfgGood EXCEPT !.settings.use_default_mailer = TRUE]

\* _send_via_smtp, email_sender.py:110-161
send_via_smtp(env) == env.smtp

\* _try_outlook_automation, email_sender.py:202-229
try_outlook_automation(env) == env.outlook = "sent"

\* _try_powershell_email, email_sender.py:231-241
try_powershell_email(env) == FALSE

\* _try_mapi_email, email_sender.py:243-257
try_mapi_email(env) == FALSE

\* _open_email_with_instructions that lets the failure to open the mail
\* client reach its caller
open_email_with_instructions_raising(env) ==
    [opened |-> env.client = "opened", raised |-> env.client # "opened"]

\* _open_email_with_instructions, email_sender.py:258-314: the result of
\* webbrowser.open is not looked at and every exception is caught and logged
open_email_with_instructions(env) ==
    [opened |-> env.client = "opened", raised |-> FALSE]

\* _send_via_default_mailer, email_sender.py:163-200: what it returns, whether
\* the hand-off was invoked and whether the mail client opened
send_via_default_mailer(env) ==
    IF env.os = "nt" /\ try_outlook_automation(env)
    THEN [ok |-> TRUE, handoff |-> FALSE, opened |-> FALSE]
    ELSE IF env.os = "nt" /\ try_powershell_email(env)
    THEN [ok |-> TRUE, handoff |-> FALSE, opened |-> FALSE]
    ELSE IF env.os = "nt" /\ try_mapi_email(env)
    THEN [ok |-> TRUE, handoff |-> FALSE, opened |-> FALSE]
    ELSE LET h == open_email_with_instructions(env)
         IN  [ok |-> ~h.raised, handoff |-> TRUE, opened |-> h.opened]

\* _send_single_email, email_sender.py:70-108
send_single_email(cfg, env) ==
    IF env.content = "raises"
    THEN [ok |-> FALSE, handoff |-> FALSE, opened |-> FALSE]
    ELSE IF cfg.settings.use_default_mailer
    THEN send_via_default_mailer(env)
    ELSE [ok |-> send_via_smtp(env), handoff |-> FALSE, opened |-> FALSE]

\* one call of _send_single_email from the loop of email_sender.py:49-51
SendSingleEmail ==
    /\ mpc = "sending"
    /\ Len(mail_attempts) < MaxSends
    /\ \E env \in MailerEnvs :
          mail_attempts' =
              Append(mail_attempts, [env |-> env, result |-> send_single_email(config, env)])
    /\ UNCHANGED <<now, timeout_minutes, lock_file, mailing_rows, archive_tree, recipients_cell,
                   valid_emails, config,
                   disk, mpc, command, eligible, todo, processing_results, summaries,
                   error_notifications, cleanups, acquired, exit_code, runs>>
    /\ UNCHANGED procVars

MailerInit ==
    /\ now = 0
    /\ config \in {cfgGood, cfgDefaultMailer}
    /\ mailing_rows = config.mailing_list
    /\ archive_tree = EmptyArchive
    /\ mail_attempts = <<>>
    /\ recipients_cell = Cell(<<>>)
    /\ valid_emails = <<>>
    /\ timeout_minutes = config.settings.processing_lock_timeout_minutes
    /\ lock_file = NewMarker(1, 0)
    /\ pc = [p \in Invocations |-> "idle"]
    /\ acq = [p \in Invocations |-> "none"]
    /\ seenAge = [p \in Invocations |-> -1]
    /\ interfered = [p \in Invocations |-> FALSE]
    /\ entered = [p \in Invocations |-> FALSE]
    /\ releaseCalls = [p \in Invocations |-> 0]
    /\ bodyExit = [p \in Invocations |-> "none"]
    /\ disk = [dirs |-> {}, input |-> [f \in {"a", "B", "ALL"} |-> {}], output |-> {},
               archive |-> {}, calls |-> <<>>, used |-> 0, dispatch_failed |-> {}, delivered |-> {}]
    /\ mpc = "sending"
    /\ command = <<"run", "">>
    /\ eligible = <<>>
    /\ todo = <<>>
    /\ processing_results = <<>>
    /\ summaries = 0
    /\ error_notifications = 0
    /\ cleanups = 0
    /\ acquired = TRUE
    /\ exit_code = -1
    /\ runs = 1

MailerNext == SendSingleEmail

SpecMailer == MailerInit /\ [][MailerNext]_vars

\* ---------------------------------------------------------------------------
\* split_email_list on the cells of the Recipients column
\* ---------------------------------------------------------------------------

\* the most ";"-separated pieces of a cell
MaxTokens == 3

\* the pieces met in a cell: two well-formed addresses, one with a one-letter
\* top-level domain, one without "@", one without a local part, nothing at
\* all; each also with white space around it
SplitTokens ==
    LET bare == {addrGood, addrOther, addrShortTld, Address(1, FALSE, 1, 2),
                 Address(0, TRUE, 1, 2), blankToken}
    IN  bare \cup {Padded(a) : a \in bare}

\* the values handed to split_email_list (config_manager.py:192-193)
SplitCells ==
    {NoCell, NaNCell}
        \cup {Cell(t) : t \in UNION {[1..n -> SplitTokens] : n \in 0..MaxTokens}}

\* one call split_email_list(row['Recipients'])
SplitEmailList ==
    /\ mpc = "splitting"
    /\ valid_emails' = split_email_list(recipients_cell)
    /\ mpc' = "split"
    /\ UNCHANGED <<now, timeout_minutes, lock_file, mailing_rows, archive_tree, mail_attempts,
                   recipients_cell, config,
                   disk, command, eligible, todo, processing_results, summaries,
                   error_notifications, cleanups, acquired, exit_code, runs>>
    /\ UNCHANGED procVars

SplitInit ==
    /\ now = 0
    /\ config = cfgGood
    /\ mailing_rows = config.mailing_list
    /\ archive_tree = EmptyArchive
    /\ mail_attempts = <<>>
    /\ recipients_cell \in SplitCells
    /\ valid_emails = <<>>
    /\ timeout_minutes = config.settings.processing_lock_timeout_minutes
    /\ lock_file = NewMarker(1, 0)
    /\ pc = [p \in Invocations |-> "idle"]
    /\ acq = [p \in Invocations |-> "none"]
    /\ seenAge = [p \in Invocations |-> -1]
    /\ interfered = [p \in Invocations |-> FALSE]
    /\ entered = [p \in Invocations |-> FALSE]
    /\ releaseCalls = [p \in Invocations |-> 0]
    /\ bodyExit = [p \in Invocations |-> "none"]
    /\ disk = [dirs |-> {}, input |-> [f \in {"a", "B", "ALL"} |-> {}], output |-> {},
               archive |-> {}, calls |-> <<>>, used |-> 0, dispatch_failed |-> {}, delivered |-> {}]
    /\ mpc = "splitting"
    /\ command = <<"run", "">>
    /\ eligible = <<>>
    /\ todo = <<>>
    /\ processing_results = <<>>
    /\ summaries = 0
    /\ error_notifications = 0
    /\ cleanups = 0
    /\ acquired = TRUE
    /\ exit_code = -1
    /\ runs = 1

SplitNext == SplitEmailList

SpecSplit == SplitInit /\ [][SplitNext]_vars

(***************************************************************************)
(* The invocations of main() racing for the lock                           *)
(***************************************************************************)
LockInit ==
    /\ now = 0
    /\ timeout_minutes \in 1..MaxTimeout
    /\ lock_file = NoFile
    /\ pc = [p \in Invocations |-> "idle"]
    /\ acq = [p \in Invocations |-> "none"]
    /\ seenAge = [p \in Invocations |-> -1]
    /\ interfered = [p \in Invocations |-> FALSE]
    /\ entered = [p \in Invocations |-> FALSE]
    /\ releaseCalls = [p \in Invocations |-> 0]
    /\ bodyExit = [p \in Invocations |-> "none"]
    /\ config = cfgGood
    /\ mailing_rows = config.mailing_list
    /\ archive_tree = EmptyArchive
    /\ mail_attempts = <<>>
    /\ recipients_cell = Cell(<<>>)
    /\ valid_emails = <<>>
    /\ disk = [dirs |-> {}, input |-> [f \in {"a", "B", "ALL"} |-> {}], output |-> {},
             archive |-> {}, calls |-> <<>>, used |-> 0, dispatch_failed |-> {}, delivered |-> {}]
    /\ mpc = "idle"
    /\ command = <<"run", "">>
    /\ eligible = <<>>
    /\ todo = <<>>
    /\ processing_results = <<>>
    /\ summaries = 0
    /\ error_notifications = 0
    /\ cleanups = 0
    /\ acquired = FALSE
    /\ exit_code = -1
    /\ runs = 0

\* a minute passes while invocations race
LockTick ==
    /\ Tick
    /\ UNCHANGED procVars
    /\ UNCHANGED mainVars

LockNext ==
    \/ LockTick
    \/ \E p \in Invocations : Invoke(p)
    \/ \E p \in Invocations : AcquireExists(p)
    \/ \E p \in Invocations : AcquireStat(p)
    \/ \E p \in Invocations : AcquireUnlink(p)
    \/ \E p \in Invocations : AcquireCreate(p)
    \/ \E p \in Invocations : BodyEnds(p)
    \/ \E p \in Invocations : Kill(p)
    \/ \E p \in Invocations : ReleaseExists(p)
    \/ \E p \in Invocations : ReleaseUnlink(p)

SpecLock == LockInit /\ [][LockNext]_vars

(***************************************************************************)
(* Properties of the lock, checked under SpecLock.                         *)
(***************************************************************************)
TimeoutSeconds == timeout_minutes * SecondsPerMinute

\* the marker exists and is not older than the timeout
LiveMarker == lock_file # NoFile /\ (now - lock_file.mtime) * SecondsPerMinute <= TimeoutSeconds

\* the marker exists and is older than the timeout
StaleMarker == lock_file # NoFile /\ (now - lock_file.mtime) * SecondsPerMinute > TimeoutSeconds

\* the invocation's acquire_lock call has returned
AcquireReturned(p) == pc[p] \in {"locked", "rel_exists", "rel_unlink", "ended", "killed"}

\* C1: two invocations are never inside the locked region together unless
\* one of them removed a marker that was older than the timeout, whatever
\* the interleaving of their acquire_lock calls.
C1_MutualExclusion ==
    \A p, q \in Invocations :
        (p # q /\ pc[p] = "locked" /\ pc[q] = "locked")
            => (seenAge[p] > TimeoutSeconds \/ seenAge[q] > TimeoutSeconds)

\* C5: an invocation that acquired the lock and has ended called
\* release_lock exactly once, however the locked region was left, and no
\* marker written by it remains.
C5_ReleasedOnEveryExit ==
    \A p \in Invocations :
        (pc[p] = "ended" /\ acq[p] = "ok")
            => /\ bodyExit[p] \in {"return", "exception", "interrupt"}
               /\ releaseCalls[p] = 1
               /\ (lock_file = NoFile \/ lock_file.pid # p)

\* C5 witness: an invocation whose locked region was left by an exception has ended
C5_Witness ==
    \E p \in Invocations :
        pc[p] = "ended" /\ acq[p] = "ok" /\ bodyExit[p] = "exception"

C6_BusyStep(p) ==
    (pc[p] = "acq_stat" /\ pc'[p] # "acq_stat" /\ LiveMarker)
        => (acq'[p] = "busy" /\ pc'[p] = "ended" /\ lock_file' = lock_file)

C6_BusyState(p) ==
    acq[p] = "busy"
        => (pc[p] = "ended" /\ ~entered[p] /\ releaseCalls[p] = 0 /\ bodyExit[p] = "none")

\* C6: when acquire_lock reads a live marker it returns failure in that very
\* step (no wait, no retry) and leaves the marker as it was; the failed
\* invocation never enters the locked region and never calls release_lock.
C6_BusyFailsFast ==
    /\ [](\A p \in Invocations : C6_BusyState(p))
    /\ [][\A p \in Invocations : C6_BusyStep(p)]_vars

\* C6 witness: an invocation was refused while another one is in the locked region
C6_Witness ==
    \E p, q \in Invocations :
        /\ acq[p] = "busy" /\ pc[q] = "locked"
        /\ lock_file = [pid |-> q, mtime |-> lock_file.mtime]

C7_Outcome(p) ==
    (AcquireReturned(p) /\ seenAge[p] >= 0)
        => IF seenAge[p] > TimeoutSeconds
           THEN interfered[p] \/ acq[p] = "ok"
           ELSE acq[p] = "busy"

C7_Steps(p) ==
    /\ (pc[p] = "acq_stat" /\ pc'[p] # "acq_stat" /\ StaleMarker)
          => (pc'[p] = "acq_unlink" /\ lock_file' = lock_file)
    /\ (pc[p] = "acq_unlink" /\ pc'[p] # "acq_unlink" /\ lock_file # NoFile)
          => (pc'[p] = "acq_create" /\ lock_file' = NoFile)
    /\ (pc[p] = "acq_create" /\ pc'[p] # "acq_create")
          => (acq'[p] = "ok" /\ lock_file' = [pid |-> p, mtime |-> now])

\* C7: an acquire_lock call that reads a marker older than the timeout
\* deletes it, writes a fresh marker of its own and succeeds, provided no
\* other invocation changes the marker during the call; a call that reads a
\* marker whose age is less than or equal to the timeout fails.
C7_StaleTakeover ==
    /\ [](\A p \in Invocations : C7_Outcome(p))
    /\ [][\A p \in Invocations : C7_Steps(p)]_vars

\* C7 witness: an invocation acquired the lock after reading a stale marker
\* left by a killed invocation
C7_Witness ==
    \E p, q \in Invocations :
        pc[p] = "locked" /\ seenAge[p] > TimeoutSeconds /\ pc[q] = "killed"

\* C8: release_lock leaves no marker, raises nothing whether or not a marker
\* was present, and a second call changes nothing.
C8_ReleaseIdempotent ==
    LET once  == release_lock(lock_file)
        twice == release_lock(once.file)
    IN  /\ once.file = NoFile /\ ~once.raised
        /\ twice.file = once.file /\ ~twice.raised

\* C8 witness: release_lock is called when the marker is already absent
C8_Witness ==
    \E p \in Invocations : pc[p] = "rel_exists" /\ lock_file = NoFile

(***************************************************************************)
(* Properties of the run and of the folder pipeline, checked under Spec.   *)
(***************************************************************************)
\* the calls of one kind made for a folder in this invocation, in order
CallsOf(calls, op, f) == SelectSeq(calls, LAMBDA c : c.op = op /\ c.folder = f)

\* a step that stores a folder's outcome
OutcomeStored == Len(processing_results') = Len(processing_results) + 1

\* the outcome the step stores
NewOutcome == processing_results'[Len(processing_results')]

Archiving(calls, f) ==
    CallsOf(calls, "archive_pdf", f) # <<>> \/ CallsOf(calls, "archive_pngs", f) # <<>>

SomeSendFailed(calls, f) ==
    \E k \in DOMAIN CallsOf(calls, "send", f) : ~CallsOf(calls, "send", f)[k].ok

C2_Outcomes ==
    \A i \in DOMAIN processing_results :
        LET r == processing_results[i]
            f == r.folder_name
            sends == CallsOf(disk.calls, "send", f)
        IN  /\ Archiving(disk.calls, f)
                 => (r.emails_sent /\ sends # <<>> /\ \A k \in DOMAIN sends : sends[k].ok)
            /\ SomeSendFailed(disk.calls, f)
                 => (~r.emails_sent /\ ~r.files_archived /\ ~Archiving(disk.calls, f))

C2_NothingMoved ==
    (OutcomeStored /\ SomeSendFailed(disk'.calls, NewOutcome.folder_name))
        => /\ disk'.input = disk.input
           /\ disk'.archive = disk.archive
           /\ \E d \in disk'.output :
                 d.name = NewOutcome.pdf_path.name /\ d.ts = NewOutcome.pdf_path.ts /\ d.pdf

C3_Pending ==
    IF mpc = "folders" /\ todo # <<>> THEN {Head(todo)}
    ELSE IF mpc = "specific" /\ command[2] \in get_all_folder_names(config)
    THEN {command[2]} ELSE {}

C3_Kept ==
    (OutcomeStored /\ NewOutcome.folder_name \in DispatchFailed(disk'.calls))
        => LET f == NewOutcome.folder_name
               sidecars == CallsOf(disk'.calls, "sidecar", f)
           IN  /\ disk'.input = disk.input
               /\ disk'.archive = disk.archive
               /\ \E d \in disk'.output :
                     /\ d.name = NewOutcome.pdf_path.name /\ d.ts = NewOutcome.pdf_path.ts
                     /\ d.pdf
                     /\ (\A k \in DOMAIN sidecars : sidecars[k].ok) => d.meta

C3_Eligible ==
    (mpc = "discover" /\ (mpc' = "folders" \/ exit_code' = 0))
        => \A f \in disk.dispatch_failed \ {"ALL"} :
              (f \in disk.dirs /\ disk.input[f] # {}) => \E i \in DOMAIN eligible' : eligible'[i] = f

C3_Retry ==
    \A f \in C3_Pending \cap disk.dispatch_failed :
        \A env \in EnvsWithin(MaxEvents - disk.used) :
            LET again == process_single_folder(disk, config, now, f, env)
                fresh == process_single_folder([disk EXCEPT !.output = {}], config, now, f, env)
            IN  /\ fresh.result.pdf_created => again.result.pdf_created
                /\ CallsOf(fresh.st.calls, "size", f) # <<>>
                       => CallsOf(again.st.calls, "size", f) # <<>>
                /\ CallsOf(fresh.st.calls, "dispatch", f) # <<>>
                       => CallsOf(again.st.calls, "dispatch", f) # <<>>
                /\ fresh.result.emails_sent => again.result.emails_sent
                /\ fresh.result.error = NoName => again.result.error = NoName

\* C3: the pipeline of a folder whose dispatch fails leaves the folder's
\* images, the archive and the rendered document (with the sidecar, if it
\* was written) as they were; a later full run finds the folder eligible as
\* long as it has images; and processing it again builds, validates and
\* dispatches exactly as far as it would with an empty output area.
C3_RetryAfterFailedDispatch ==
    /\ [](C3_Retry)
    /\ [][C3_Kept /\ C3_Eligible]_vars

\* C3 witness: a later full run has built and sent the document of a folder
\* whose dispatch failed before, the document of the failed run still lying
\* in the output area
C3_Witness ==
    /\ command[1] = "run"
    /\ \E i \in DOMAIN processing_results :
          LET r == processing_results[i]
          IN  /\ r.folder_name \in disk.dispatch_failed
              /\ \E j \in DOMAIN eligible : eligible[j] = r.folder_name
              /\ r.pdf_created /\ r.emails_sent
              /\ \E d \in disk.output :
                    d.name = r.pdf_path.name /\ d.ts < r.pdf_path.ts /\ d.pdf /\ d.meta

\* the positions of the mailing entries for a document name, in list order
C4_Matching(pdf_name) ==
    SelectSeq([i \in 1..Len(config.mailing_list) |-> i],
              LAMBDA i : config.mailing_list[i].pdf_name = pdf_name)

\* C4: a send_pdf_emails call for a document name that has mailing entries
\* attempts exactly those entries, each once, in list order, whatever the
\* result of the earlier attempts, and returns true exactly when every
\* attempt succeeded.
C4_EveryEntryAttempted ==
    \A k \in DOMAIN disk.calls :
        disk.calls[k].op = "dispatch" =>
            LET d == disk.calls[k]
                expected == C4_Matching(d.doc)
                sends == CallsOf(disk.calls, "send", d.folder)
                attempts == [j \in DOMAIN sends |-> sends[j].entry]
            IN  expected # <<>> =>
                   /\ attempts = expected
                   /\ d.ok <=> (\A j \in DOMAIN sends : sends[j].ok)

\* C4 witness: send_pdf_emails returned false after attempting both entries
\* of a document, of which the first failed
C4_Witness ==
    \E k \in DOMAIN disk.calls :
        /\ disk.calls[k].op = "dispatch" /\ ~disk.calls[k].ok
        /\ LET sends == CallsOf(disk.calls, "send", disk.calls[k].folder)
           IN  /\ Len(sends) = Len(C4_Matching(disk.calls[k].doc))
               /\ Len(sends) = 2 /\ ~sends[1].ok /\ sends[2].ok

C9_Names == [i \in DOMAIN processing_results |-> processing_results[i].folder_name]

\* the full run went through its loop and its cleanup
C9_RunCompleted == mpc = "cleanup" \/ (mpc = "ended" /\ cleanups = 1)

C9_Captured ==
    \A i \in DOMAIN processing_results :
        LET f == processing_results[i].folder_name
        IN  (\E k \in DOMAIN disk.calls :
                /\ disk.calls[k].folder = f /\ ~disk.calls[k].ok
                /\ disk.calls[k].op \in {"render", "size", "send", "dispatch", "exception"})
            => processing_results[i].error # NoName

\* C9: in a full run the outcomes stored so far followed by the folders
\* still to process are the eligible folders found at the start, each once,
\* whatever the earlier outcomes were; a run that reaches its cleanup has one
\* outcome per eligible folder; a failed build, size validation, send or
\* dispatch and an exception are recorded as the error of the folder's outcome.
C9_EveryFolderOneOutcome ==
    /\ command[1] = "run" =>
          /\ \A i, j \in DOMAIN eligible : eligible[i] = eligible[j] => i = j
          /\ mpc = "folders" => C9_Names \o todo = eligible
          /\ C9_RunCompleted => C9_Names = eligible
    /\ C9_Captured

\* C9 witness: a full run completed with two outcomes, the first folder's an
\* exception and the second folder's a success
C9_Witness ==
    /\ command[1] = "run" /\ C9_RunCompleted
    /\ Len(processing_results) = 2
    /\ processing_results[1].error = "Processing exception"
    /\ processing_results[2].error = NoName /\ processing_results[2].files_archived

\* C10: an invocation whose configuration has a violation never gets past
\* the initialisation: it acquires no lock and writes no marker, calls no
\* build, dispatch or archive step, stores no outcome, and ends with exit
\* code 1 (130 if the user interrupts it first).
C10_InvalidConfigStops ==
    (validate_configuration(config) # {} /\ mpc # "idle")
        => /\ mpc \in {"init", "ended"}
           /\ ~acquired
           /\ lock_file \in {NoFile, NewMarker(0, 0)}
           /\ disk.calls = <<>> /\ processing_results = <<>>
           /\ disk.output = {} /\ disk.archive = {}
           /\ mpc = "ended" => exit_code \in {1, 130}

\* C10 witness: with an orphaned mailing entry a full run has ended with
\* exit code 1 although the lock was free
C10_Witness ==
    /\ config = cfgOrphan /\ validate_configuration(config) # {}
    /\ command[1] = "run" /\ mpc = "ended" /\ exit_code = 1
    /\ lock_file = NoFile /\ ~acquired

(***************************************************************************)
(* Properties of the configuration checks, checked under SpecConfig.       *)
(***************************************************************************)
\* the configuration has been loaded
Loaded == mpc # "idle"

MappedNames == {config.pdf_names_mapping[f] : f \in DOMAIN config.pdf_names_mapping}

MailingNames == {config.mailing_list[i].pdf_name : i \in DOMAIN config.mailing_list}

\* the settings the other checks of validate_configuration look at are complete
OtherSettingsComplete ==
    /\ config.settings.use_default_mailer \/ config.settings.smtp_complete
    /\ config.settings.admin_emails # {}
         \/ ~(config.settings.send_summary_email \/ config.settings.send_error_notifications)
    /\ DOMAIN config.pdf_names_mapping # {}
    /\ config.mailing_list # <<>>

\* C11: for a loaded configuration whose other settings are complete,
\* validate_configuration reports nothing when every mailing-list document
\* name is mapped and every mapped name other than "Global Headers" has a
\* mailing entry; it reports a violation when a mailing entry names an
\* unmapped document and when a mapped name other than "Global Headers" has
\* no mailing entry.
C11_CrossReferences ==
    Loaded =>
        /\ (OtherSettingsComplete /\ MailingNames \subseteq MappedNames
              /\ (MappedNames \ {"Global Headers"}) \subseteq MailingNames)
             => validate_configuration(config) = {}
        /\ ~(MailingNames \subseteq MappedNames) => validate_configuration(config) # {}
        /\ ~((MappedNames \ {"Global Headers"}) \subseteq MailingNames)
             => validate_configuration(config) # {}

\* C11 witness: a configuration with two mapped documents, each with a
\* mailing entry, and the unreferenced global-headers document passed
\* validation
C11_Witness ==
    /\ mpc = "acquire"
    /\ MappedNames = {"RA", "RB", "Global Headers"}
    /\ MailingNames = {"RA", "RB"}

\* the rows of the file without a valid recipient
EmptyRows == {i \in DOMAIN mailing_rows : split_email_list(mailing_rows[i].recipients) = <<>>}

\* another row of the file names the document of row i and has a valid recipient
OtherValidRow(i) ==
    \E j \in DOMAIN mailing_rows \ EmptyRows : mailing_rows[j].pdf_name = mailing_rows[i].pdf_name

\* the rows of the file with a valid recipient were loaded, in order, and
\* no others
EmptyRowsDropped ==
    /\ Len(config.mailing_list) = Cardinality(DOMAIN mailing_rows \ EmptyRows)
    /\ \A k \in DOMAIN config.mailing_list : config.mailing_list[k].recipients # <<>>

\* C20 as stated: a row without a valid recipient is dropped at load, and
\* validation reports an error naming that row's document exactly when no
\* other row of that document has a valid recipient.
C20_ErrorIffNoOtherValidRow ==
    Loaded =>
        /\ EmptyRowsDropped
        /\ \A i \in EmptyRows :
              (mailing_rows[i].pdf_name \in orphaned_pdfs(config) \cup missing_mailing_entries(config))
                  <=> ~OtherValidRow(i)

\* C20, amended: a row without a valid recipient is dropped at load and
\* loading goes on; validation reports the row's document as lacking mailing
\* entries exactly when the document is mapped by a folder, is not named
\* "Global Headers" and no other row of it has a valid recipient; it reports
\* the document as orphaned exactly when no folder maps it and another row
\* of it has a valid recipient.
C20_DroppedRowValidation ==
    Loaded =>
        /\ EmptyRowsDropped
        /\ \A i \in EmptyRows :
              LET d == mailing_rows[i].pdf_name
              IN  /\ d \in missing_mailing_entries(config)
                       <=> (d \in MappedNames \ {"Global Headers"} /\ ~OtherValidRow(i))
                  /\ d \in orphaned_pdfs(config)
                       <=> (d \notin MappedNames /\ OtherValidRow(i))
                  /\ d \in missing_mailing_entries(config)
                       => "missing_entries" \in validate_configuration(config)
                  /\ d \in orphaned_pdfs(config)
                       => "orphaned" \in validate_configuration(config)

\* C20 witness: the only row of document "RA", which folder "a" maps, had
\* no valid recipient, another document's row was loaded, and validation
\* stopped the start
C20_Witness ==
    /\ mpc = "ended"
    /\ exit_code = 1
    /\ OtherSettingsComplete
    /\ "a" \in DOMAIN config.pdf_names_mapping
    /\ config.pdf_names_mapping["a"] = "RA"
    /\ \E i \in EmptyRows : mailing_rows[i].pdf_name = "RA" /\ ~OtherValidRow(i)

(***************************************************************************)
(* Properties of the folder pipeline's outcomes, checked under Spec.       *)
(***************************************************************************)
\* folder f exists and is mapped, and neither it nor the ALL folder holds
\* an image
CombinedImagesEmpty(st, f) ==
    /\ get_pdf_name_for_folder(config, f) # NoName
    /\ f \in st.dirs
    /\ get_png_files(st, f) = <<>>
    /\ get_png_files(st, "ALL") = <<>>

\* C12: a folder pipeline that starts with an empty combined image set
\* stores an outcome with pdf_created false and no error description.
C12_EmptySetNoError ==
    [][(OutcomeStored /\ CombinedImagesEmpty(disk, NewOutcome.folder_name))
         => (~NewOutcome.pdf_created /\ NewOutcome.error = NoName)]_vars

\* the configured maximum attachment size, in bytes
MaxAttachmentBytes == config.settings.max_attachment_size_mb * BytesPerMB

C13_Outcomes ==
    \A i \in DOMAIN processing_results :
        LET r == processing_results[i]
            f == r.folder_name
            rendered == SelectSeq(CallsOf(disk.calls, "render", f), LAMBDA c : c.ok)
            sizes == CallsOf(disk.calls, "size", f)
        IN  \A k \in DOMAIN rendered :
               /\ rendered[k].entry > MaxAttachmentBytes
                    => /\ \A j \in DOMAIN sizes : ~sizes[j].ok
                       /\ r.error = "PDF size validation failed"
                       /\ ~r.emails_sent /\ ~r.files_archived
                       /\ CallsOf(disk.calls, "dispatch", f) = <<>>
                       /\ CallsOf(disk.calls, "send", f) = <<>>
                       /\ ~Archiving(disk.calls, f)
               /\ rendered[k].entry = MaxAttachmentBytes
                    => /\ \A j \in DOMAIN sizes : sizes[j].ok
                       /\ r.error # "PDF size validation failed"
                       /\ CallsOf(disk.calls, "dispatch", f) # <<>>

C13_NothingMoved ==
    (OutcomeStored /\ NewOutcome.error = "PDF size validation failed")
        => /\ disk'.input = disk.input
           /\ disk'.archive = disk.archive

\* C13: a rendered document strictly larger than the configured maximum
\* makes the folder's pipeline record the size error and return with no
\* dispatch, no send and no archive call and nothing moved; a document of
\* exactly the maximum size passes the test and is dispatched.
C13_OversizeRejected ==
    /\ [](C13_Outcomes)
    /\ [][C13_NothingMoved]_vars

\* C13 witness: a document one byte over the maximum was tested and its
\* folder's outcome carries the size error
C13_Witness ==
    \E i \in DOMAIN processing_results :
        LET rendered == CallsOf(disk.calls, "render", processing_results[i].folder_name)
        IN  /\ rendered # <<>>
            /\ rendered[1].entry = MaxAttachmentBytes + 1
            /\ processing_results[i].pdf_created
            /\ processing_results[i].error = "PDF size validation failed"

\* no mailing entry names the document that folder f is mapped to
NoEntryForFolder(f) ==
    get_mailing_entries_for_pdf(config, get_pdf_name_for_folder(config, f)) = <<>>

DocumentMoved ==
    /\ NewOutcome.pdf_created
    /\ DocsAt(disk', NewOutcome.pdf_path) = {}
    /\ \E x \in disk'.archive :
          /\ x.kind = "pdf" /\ x.from = NewOutcome.folder_name
          /\ x.name = NewOutcome.pdf_path.name /\ x.ts = NewOutcome.pdf_path.ts

\* after the step, every image the folder held is in the archive and none
\* is left in the folder
ImagesMoved ==
    LET f == NewOutcome.folder_name
    IN  /\ f \in disk.dirs
        /\ disk'.input[f] = {}
        /\ \A n \in disk.input[f] :
              \E x \in disk'.archive : x.kind = "png" /\ x.from = f /\ x.name = n

\* the step made the two archive calls for the folder of the new outcome
ArchiveAttempted == Archiving(disk'.calls, NewOutcome.folder_name)

C15_Step ==
    OutcomeStored =>
        /\ NewOutcome.files_archived
             <=> (ArchiveAttempted /\ DocumentMoved /\ ImagesMoved)
        /\ (ArchiveAttempted /\ ~(DocumentMoved /\ ImagesMoved))
             => (~NewOutcome.files_archived /\ NewOutcome.error # NoName)

\* C15 as stated: in every folder outcome files_archived is true exactly
\* when the document with its sidecar and every image of the folder were
\* moved to the archive; when the archive step was made and either move
\* failed wholly or partly, files_archived is false and an error is recorded.
C15_ArchivedIffBothMoved == [][C15_Step]_vars

C15_DisabledStep ==
    (OutcomeStored /\ ArchiveAttempted)
        => /\ NewOutcome.files_archived
           /\ disk'.input = disk.input
           /\ disk'.archive = disk.archive
           /\ \E d \in DocsAt(disk', NewOutcome.pdf_path) : d.pdf

\* C15, amended: with archive_after_processing on, files_archived is true
\* exactly when the document with its sidecar and every image of the folder
\* were moved, and a failed or partial move gives files_archived false with
\* an error recorded; with archive_after_processing off both archive calls
\* succeed without moving anything and files_archived is true.
C15_ArchivedIffBothMovedWhenEnabled ==
    [][IF config.settings.archive_after_processing THEN C15_Step ELSE C15_DisabledStep]_vars

\* C15 witness: the document was moved to the archive, an image of the
\* folder could not be moved, and the outcome says not archived, with the
\* archiving error
C15_Witness ==
    \E i \in DOMAIN processing_results :
        LET r == processing_results[i]
        IN  /\ r.emails_sent /\ ~r.files_archived
            /\ r.error = "File archiving failed"
            /\ DocsAt(disk, r.pdf_path) = {}
            /\ \E x \in disk.archive : x.kind = "pdf" /\ x.from = r.folder_name
            /\ disk.input[r.folder_name] # {}

\* a full run that took the lock and returned from run_full_processing:
\* not interrupted, and no exception left the method
FullRunReturned ==
    /\ command[1] = "run"
    /\ mpc = "ended"
    /\ acquired
    /\ exit_code \in {0, 1}
    /\ error_notifications = 0

\* C16: a full run that held the lock and returned, with summary
\* notifications enabled, has sent exactly one administrator summary, also
\* when no folder was eligible.
C16_SummaryOncePerRun ==
    (FullRunReturned /\ config.settings.send_summary_email) => summaries = 1

\* C17: a full run that held the lock and returned has performed the
\* cleanup (retention sweep and removal of stale documents) once, also when
\* every folder failed and when no folder was eligible.
C17_CleanupEveryRun ==
    FullRunReturned => cleanups = 1

\* C18: an error notification is sent only by a step in which an exception
\* leaves run_full_processing; a step that stores a folder's outcome, in a
\* full run or for "folder:NAME", sends none, whatever error the outcome
\* records.
C18_NoNotificationForRecordedFailure ==
    [][/\ OutcomeStored => error_notifications' = error_notifications
       /\ error_notifications' # error_notifications
            => (mpc = "discover" /\ processing_results' = processing_results)]_vars

\* the file names present both in the ALL folder and in folder f
CollidingNames(st, f) ==
    IF f \in st.dirs /\ "ALL" \in st.dirs /\ f # "ALL"
    THEN st.input[f] \cap st.input["ALL"] ELSE {}

\* the image list of the step's "images" call for the new outcome's folder
ImagesHandedOver == CallsOf(disk'.calls, "images", NewOutcome.folder_name)[1].files

C19_Step ==
    (OutcomeStored /\ CallsOf(disk'.calls, "images", NewOutcome.folder_name) # <<>>)
        => \A n \in CollidingNames(disk, NewOutcome.folder_name) :
              /\ Cardinality({k \in DOMAIN ImagesHandedOver : ImagesHandedOver[k].name = n}) = 1
              /\ \A k \in DOMAIN ImagesHandedOver :
                    ImagesHandedOver[k].name = n => ImagesHandedOver[k].src = "ALL"

\* C19: for every file name present both in the ALL folder and in the
\* folder being processed, the image list handed to _create_pdf holds
\* exactly one image of that name and it is the ALL folder's file.
C19_GlobalImageWins == [][C19_Step]_vars

\* C19 witness: folder "a" and the ALL folder both held x.png and the list
\* handed over for "a" has the ALL folder's x.png
C19_Witness ==
    /\ "x.png" \in disk.input["ALL"]
    /\ \E i \in DOMAIN processing_results :
          /\ processing_results[i].folder_name = "a"
          /\ processing_results[i].pdf_created
          /\ LET c == CallsOf(disk.calls, "images", "a")
             IN  /\ c # <<>>
                 /\ \E k \in DOMAIN c[1].files :
                       c[1].files[k].name = "x.png" /\ c[1].files[k].src = "ALL"
                 /\ \E k \in DOMAIN c[1].files : c[1].files[k].src = "a"

(***************************************************************************)
(* Properties of the retention sweep, checked under SpecSweep.             *)
(***************************************************************************)
\* the files the sweep has to keep: those not older than the cutoff
FilesToKeep ==
    {f \in archive_tree.files :
        ~(f.mtime < now - config.settings.log_retention_days * MinutesPerDay)}

\* C21: cleanup_old_archives deletes every file below Archive whose
\* modification time is strictly before now minus the retention days and
\* keeps every other file; then it removes every directory below Archive
\* under which no file is left, and no other directory.
C21_SweepDeletesOldFiles ==
    [][mpc' = "swept" =>
          /\ archive_tree'.files = FilesToKeep
          /\ archive_tree'.dirs =
                {d \in archive_tree.dirs : \E f \in FilesToKeep : IsUnder(f.dir, d)}]_vars

(***************************************************************************)
(* Properties of discovery, commands and exit codes, checked under Spec.   *)
(***************************************************************************)
\* the configured folders other than ALL that exist and hold an image
FoldersWithImages ==
    {f \in DOMAIN config.pdf_names_mapping \ {"ALL"} :
        f \in disk.dirs /\ disk.input[f] # {}}

\* C22: in a full run the folders found at discovery are exactly the
\* configured folders other than ALL that exist and hold at least one image;
\* the folders processed are among them, all of them once the run reaches
\* its cleanup, and ALL is never one of them.
C22_ProcessedFolders ==
    command[1] = "run" =>
        /\ (mpc = "folders" /\ processing_results = <<>>)
              => Range(eligible) = FoldersWithImages
        /\ (FullRunReturned /\ eligible = <<>>) => FoldersWithImages = {}
        /\ Range(C9_Names) \subseteq Range(eligible)
        /\ "ALL" \notin Range(C9_Names)
        /\ C9_RunCompleted => Range(C9_Names) = Range(eligible)

\* C22 witness: a full run went through folders "a" and "B" while the ALL
\* folder held an image
C22_Witness ==
    /\ command[1] = "run"
    /\ mpc = "ended" /\ cleanups = 1
    /\ Range(C9_Names) = {"a", "B"}
    /\ disk.input["ALL"] # {}

\* the configured folder names that the lowered name of the command line
\* can stand for
NamedFolders == {n \in DOMAIN config.pdf_names_mapping : Lower(n) = command[2]}

\* C23: an invocation "folder:NAME" with a configured folder name that took
\* the lock and was not interrupted has run the pipeline once, for that
\* folder.
C23_FolderCommandRunsFolder ==
    (/\ command[1] = "folder"
     /\ mpc = "ended" /\ acquired /\ exit_code # 130
     /\ NamedFolders # {})
        => /\ Len(processing_results) = 1
           /\ processing_results[1].folder_name \in NamedFolders

\* some stored outcome records a failure
SomeOutcomeFailed ==
    \E i \in DOMAIN processing_results : processing_results[i].error # NoName

\* C24: a full run that has ended has exit code 0 only if it took the lock
\* and no stored outcome records a failure; an ended run that was not
\* interrupted and failed to take the lock, or stored an outcome with a
\* failure, has exit code 1.
C24_ExitCodeReflectsOutcomes ==
    (command[1] = "run" /\ mpc = "ended") =>
        /\ exit_code \in {0, 1, 130}
        /\ exit_code = 0 => (acquired /\ ~SomeOutcomeFailed)
        /\ (exit_code # 130 /\ (~acquired \/ SomeOutcomeFailed)) => exit_code = 1

\* C25: every send made for a folder goes to a mailing entry whose document
\* name is the document name configured for that folder, whatever happened
\* to the metadata sidecar.
C25_DispatchToOwnEntries ==
    \A k \in DOMAIN disk.calls :
        disk.calls[k].op = "send"
            => config.mailing_list[disk.calls[k].entry].pdf_name
                  = get_pdf_name_for_folder(config, disk.calls[k].folder)


\* the process recorded in the marker is another invocation that is still
\* inside the locked region
C26_OwnerRunning(q) ==
    /\ lock_file # NoFile
    /\ lock_file.pid \in Invocations \ {q}
    /\ pc[lock_file.pid] = "locked"

C26_Step(q) ==
    (pc[q] = "acq_stat" /\ pc'[q] # "acq_stat" /\ C26_OwnerRunning(q))
        => /\ pc'[lock_file.pid] = "locked"
           /\ IF (now - lock_file.mtime) * SecondsPerMinute > TimeoutSeconds
              THEN pc'[q] = "acq_unlink" /\ acq'[q] = acq[q]
              ELSE acq'[q] = "busy" /\ pc'[q] = "ended"

\* C26: when acquire_lock reads the marker of a run that is still inside the
\* locked region, the marker's age alone decides: older than the timeout, the
\* caller goes on to remove it (and the owner keeps running); otherwise the
\* caller is refused.  An invocation that took over such a marker without
\* interference is inside the locked region as well.
C26_AgeAloneDecides ==
    /\ [][\A q \in Invocations : C26_Step(q)]_vars
    /\ [](\A q \in Invocations :
             (AcquireReturned(q) /\ seenAge[q] > TimeoutSeconds /\ ~interfered[q])
                 => entered[q])

\* C26 witness: a run that found no marker is still inside the locked region,
\* and a second invocation that read its marker as older than the timeout
\* replaced it and is inside the locked region at the same time
C26_Witness ==
    \E p, q \in Invocations :
        /\ p # q
        /\ pc[p] = "locked" /\ seenAge[p] = -1 /\ ~interfered[p]
        /\ pc[q] = "locked" /\ seenAge[q] > TimeoutSeconds /\ ~interfered[q]
        /\ lock_file # NoFile /\ lock_file.pid = q
        /\ \A r \in Invocations \ {p, q} : pc[r] = "idle"


C27_Step(p) ==
    (/\ pc[p] = "rel_unlink" /\ pc'[p] # "rel_unlink"
     /\ lock_file # NoFile /\ lock_file.pid \in Invocations \ {p}
     /\ pc[lock_file.pid] = "locked")
        => /\ lock_file' = NoFile
           /\ pc'[lock_file.pid] = "locked"
           /\ pc'[p] = "ended"

\* C27: the unlink of release_lock removes the marker that is present also
\* when it records another invocation that is still inside the locked
\* region; that invocation keeps running, now without a marker.
C27_ReleaseDeletesForeignMarker ==
    [][\A p \in Invocations : C27_Step(p)]_vars

\* C27 witness: the first run has ended after its stale marker had been
\* replaced by the second run's; the second run is still inside the locked
\* region, and a third invocation that found no marker is inside it as well
\* and holds the marker
C27_Witness ==
    \E p, q, r \in Invocations :
        /\ p # q /\ q # r /\ p # r
        /\ pc[p] = "ended" /\ acq[p] = "ok" /\ seenAge[p] = -1 /\ ~interfered[p]
        /\ pc[q] = "locked" /\ seenAge[q] > TimeoutSeconds /\ ~interfered[q]
        /\ pc[r] = "locked" /\ seenAge[r] = -1 /\ ~interfered[r]
        /\ lock_file # NoFile /\ lock_file.pid = r


(***************************************************************************)
(* Further properties of the folder pipeline, checked under Spec.          *)
(***************************************************************************)
\* the images of folder f that are pages of the document rendered for it
RenderedFrom(calls, f) ==
    {n \in ImageNames :
        \E k \in DOMAIN CallsOf(calls, "render", f) :
            \E j \in DOMAIN CallsOf(calls, "render", f)[k].files :
                CallsOf(calls, "render", f)[k].files[j] = [name |-> n, src |-> f]}

C28_Step ==
    (OutcomeStored /\ NewOutcome.files_archived /\ config.settings.archive_after_processing)
        => LET f == NewOutcome.folder_name
           IN  /\ disk'.input[f] = {}
               /\ \A n \in disk.input[f] :
                     \E x \in disk'.archive :
                         x.kind = "png" /\ x.from = f /\ x.name = n /\ x.at = now
               /\ disk'.input["ALL"] = disk.input["ALL"]

\* C28: when a folder's files were archived (archiving enabled), every image
\* that was in the folder is in the archive and none is left, whether or not
\* it became a page of the document; the images of the ALL folder stay.
C28_ArchivesWholeFolder == [][C28_Step]_vars

\* C28 witness: folder "a" was archived; its y.png was skipped at rendering
\* and its x.png was dropped in favour of the ALL folder's x.png, so neither
\* is a page of the document, and both are in the archive
C28_Witness ==
    \E i \in DOMAIN processing_results :
        /\ processing_results[i].folder_name = "a"
        /\ processing_results[i].files_archived
        /\ CallsOf(disk.calls, "render", "a") # <<>>
        /\ RenderedFrom(disk.calls, "a") = {}
        /\ \A n \in {"x.png", "y.png"} :
              \E x \in disk.archive : x.kind = "png" /\ x.from = "a" /\ x.name = n


\* the mailing-list positions of the send calls made for folder f, in order
SentTo(calls, f) ==
    [k \in DOMAIN CallsOf(calls, "send", f) |-> CallsOf(calls, "send", f)[k].entry]

\* C29: whatever was delivered in an earlier invocation, a dispatch that gets
\* as far as sending sends once to every mailing entry of the document, in
\* list order, the entries that already received the document included.
C29_EveryEntryAgain ==
    \A k \in DOMAIN disk.calls :
        (disk.calls[k].op = "dispatch" /\ CallsOf(disk.calls, "send", disk.calls[k].folder) # <<>>)
            => LET f == disk.calls[k].folder
                   entries == get_mailing_entries_for_pdf(config, disk.calls[k].doc)
               IN  /\ SentTo(disk.calls, f) = entries
                   /\ \A i \in Range(entries) :
                         <<f, i>> \in disk.delivered => i \in Range(SentTo(disk.calls, f))

\* C29 witness: in an earlier invocation the dispatch for folder "a" failed
\* after the first entry had received the document; in this invocation both
\* entries of the document were sent to, the first one again
C29_Witness ==
    /\ runs = 2
    /\ "a" \in disk.dispatch_failed
    /\ <<"a", 1>> \in disk.delivered /\ <<"a", 2>> \notin disk.delivered
    /\ SentTo(disk.calls, "a") = <<1, 2>>
    /\ \A k \in DOMAIN CallsOf(disk.calls, "send", "a") : CallsOf(disk.calls, "send", "a")[k].ok


\* the stage of the folder pipeline a call belongs to: 1 build, 2 size
\* validation, 3 dispatch, 4 archive; 0 for a call that is no stage
StageOf(op) ==
    CASE op \in {"images", "render", "sidecar"} -> 1
      [] op = "size" -> 2
      [] op \in {"send", "dispatch"} -> 3
      [] op \in {"archive_pdf", "archive_pngs"} -> 4
      [] OTHER -> 0

\* the stage calls made for folder f in this invocation, in order
StageCalls(calls, f) ==
    SelectSeq(calls, LAMBDA c : c.folder = f /\ StageOf(c.op) > 0)

C30_Folder(f) ==
    LET s == StageCalls(disk.calls, f)
        once(op) == Len(CallsOf(disk.calls, op, f)) <= 1
        made(op) == CallsOf(disk.calls, op, f) # <<>>
        good(op) == made(op) /\ CallsOf(disk.calls, op, f)[1].ok
    IN  /\ \A i, j \in DOMAIN s : i < j => StageOf(s[i].op) <= StageOf(s[j].op)
        /\ \A op \in {"images", "render", "size", "dispatch", "archive_pdf", "archive_pngs"} :
              once(op)
        /\ made("size") => good("render")
        /\ (made("dispatch") \/ made("send")) => good("size")
        /\ (made("archive_pdf") \/ made("archive_pngs")) => good("dispatch")

\* C30: in one invocation the calls made for a folder follow the order
\* build, size validation, dispatch, archive; each of these calls is made
\* at most once; the size validation is made only after a successful build,
\* the dispatch only after a successful size validation, and the archive
\* calls only after a successful dispatch.
C30_StagesInOrder == \A f \in {"a", "B", "ALL"} : C30_Folder(f)

\* C30 witness: folder "a" went through all four stages
C30_Witness ==
    LET s == StageCalls(disk.calls, "a")
    IN  [k \in DOMAIN s |-> s[k].op]
            = <<"images", "render", "sidecar", "size", "send", "send", "dispatch",
                "archive_pdf", "archive_pngs">>

\* C31: in every stored folder outcome, files_archived implies emails_sent,
\* emails_sent implies pdf_created, and pdf_path is set exactly when
\* pdf_created is true.
C31_OutcomeFlagsNested ==
    \A i \in DOMAIN processing_results :
        LET r == processing_results[i]
        IN  /\ r.files_archived => r.emails_sent
            /\ r.emails_sent => r.pdf_created
            /\ (r.pdf_path # NoPath) <=> r.pdf_created

\* C31 witness: the run holds an outcome with the three flags true and one
\* with a document built, nothing sent and nothing archived
C31_Witness ==
    /\ \E i \in DOMAIN processing_results :
          LET r == processing_results[i]
          IN  r.files_archived /\ r.emails_sent /\ r.pdf_created /\ r.pdf_path # NoPath
    /\ \E i \in DOMAIN processing_results :
          LET r == processing_results[i]
          IN  ~r.files_archived /\ ~r.emails_sent /\ r.pdf_created /\ r.pdf_path # NoPath

\* C32: the configuration is loaded and validated only by an invocation that
\* holds the lock: every step that leaves the construction of the
\* orchestrator is taken with the lock acquired.
C32_ConfigLoadedUnderLock ==
    [][(mpc = "init" /\ mpc' # "init") => acquired]_vars

\* a call of the folder's pipeline in this invocation reported a failure
StageFailed(calls, f) ==
    \E k \in DOMAIN calls :
        /\ calls[k].folder = f /\ ~calls[k].ok
        /\ calls[k].op \in {"render", "size", "send", "dispatch", "exception"}

C33_Recorded ==
    \A i \in DOMAIN processing_results :
        LET r == processing_results[i]
        IN  /\ StageFailed(disk.calls, r.folder_name) => r.error # NoName
            /\ (~r.pdf_created \/ ~r.emails_sent \/ ~r.files_archived) => r.error # NoName

C33_ArchiveStep ==
    (/\ OutcomeStored /\ ArchiveAttempted /\ config.settings.archive_after_processing
     /\ ~(DocumentMoved /\ ImagesMoved))
        => NewOutcome.error # NoName

\* C33: an outcome of a folder for which the build, the size validation, a
\* send, the dispatch as a whole (no matching entry included) or the archive
\* step failed, or in whose pipeline an exception was raised, has an error
\* description; so has every outcome in which one of the three flags is false.
C33_EveryFailureRecorded ==
    /\ []C33_Recorded
    /\ [][C33_ArchiveStep]_vars

\* C33 witness: an outcome records a failed archive move after a full
\* dispatch: an image of the folder was left behind
C33_Witness ==
    \E i \in DOMAIN processing_results :
        LET r == processing_results[i]
        IN  /\ r.emails_sent /\ ~r.files_archived /\ r.error = "File archiving failed"
            /\ disk.input[r.folder_name] # {}
            /\ Archiving(disk.calls, r.folder_name)

\* after the step, the document of the new outcome is in the output area,
\* and so is its sidecar when the build wrote one
BuildStillInOutput ==
    LET f == NewOutcome.folder_name
        sidecar == CallsOf(disk'.calls, "sidecar", f)
    IN  /\ \E d \in DocsAt(disk', NewOutcome.pdf_path) : d.pdf
        /\ (sidecar # <<>> /\ sidecar[1].ok)
              => \E d \in DocsAt(disk', NewOutcome.pdf_path) : d.meta

\* C34: when a folder's outcome records a failed size validation, a failed
\* dispatch or a failed archive step, the document built for it and its
\* sidecar are still in the output area.
C34_BuildKeptOnLaterFailure ==
    [][(/\ OutcomeStored /\ NewOutcome.pdf_created
        /\ NewOutcome.error \in {"PDF size validation failed", "Email sending failed",
                                 "File archiving failed"})
          => BuildStillInOutput]_vars

\* after the step, the document of the new outcome is in the output area or
\* in the archive, and so is its sidecar when the build wrote one
BuildNotLost ==
    LET f == NewOutcome.folder_name
        p == NewOutcome.pdf_path
        sidecar == CallsOf(disk'.calls, "sidecar", f)
        archived == {x \in disk'.archive :
                        x.kind = "pdf" /\ x.from = f /\ x.name = p.name /\ x.ts = p.ts}
    IN  /\ (\E d \in DocsAt(disk', p) : d.pdf) \/ archived # {}
        /\ (sidecar # <<>> /\ sidecar[1].ok)
              => ((\E d \in DocsAt(disk', p) : d.meta) \/ (\E x \in archived : x.meta))

C34_Step ==
    (OutcomeStored /\ NewOutcome.pdf_created)
        => /\ NewOutcome.error \in {"PDF size validation failed", "Email sending failed"}
                => (BuildStillInOutput /\ disk'.archive = disk.archive
                                       /\ disk'.input = disk.input)
           /\ NewOutcome.error = "File archiving failed"
                => (/\ BuildNotLost
                    /\ disk.archive \subseteq disk'.archive
                    /\ \A n \in disk.input[NewOutcome.folder_name] :
                          \/ n \in disk'.input[NewOutcome.folder_name]
                          \/ \E x \in disk'.archive :
                                x.kind = "png" /\ x.from = NewOutcome.folder_name /\ x.name = n)

\* C34 as amended: after a failed size validation or a failed dispatch the
\* document and its sidecar are still in the output area and nothing was
\* moved; after a failed archive step every file is where the step left it,
\* in its old place or in the archive, and nothing is moved back or deleted.
C34_NoRollback == [][C34_Step]_vars

\* C34 witness: the archive step failed on an image after the document had
\* been moved: the document is in the archive and no longer in the output area
C34_Witness ==
    \E i \in DOMAIN processing_results :
        LET r == processing_results[i]
        IN  /\ r.error = "File archiving failed"
            /\ DocsAt(disk, r.pdf_path) = {}
            /\ \E x \in disk.archive :
                  x.kind = "pdf" /\ x.from = r.folder_name /\ x.name = r.pdf_path.name
            /\ disk.input[r.folder_name] # {}

\* the builder was called for folder f in this invocation and made no document
BuilderFailed(calls, f) ==
    \E k \in DOMAIN CallsOf(calls, "render", f) : ~CallsOf(calls, "render", f)[k].ok

\* C35: the outcome of a folder whose builder failed has pdf_created false,
\* no document path and the error description of a failed build, and no
\* size validation, send, dispatch or archive call was made for the folder.
C35_BuildFailureStops ==
    \A i \in DOMAIN processing_results :
        LET r == processing_results[i]
            f == r.folder_name
        IN  BuilderFailed(disk.calls, f)
                => /\ ~r.pdf_created /\ r.pdf_path = NoPath
                   /\ r.error = "PDF generation failed"
                   /\ ~r.emails_sent /\ ~r.files_archived
                   /\ \A op \in {"size", "send", "dispatch", "archive_pdf", "archive_pngs"} :
                         CallsOf(disk.calls, op, f) = <<>>

\* C35 witness: the builder failed for folder "a", whose images are still in
\* the folder, and the outcome is stored
C35_Witness ==
    \E i \in DOMAIN processing_results :
        /\ processing_results[i].folder_name = "a"
        /\ BuilderFailed(disk.calls, "a")
        /\ processing_results[i].error = "PDF generation failed"
        /\ disk.input["a"] # {}

\* two distinct folders of the loaded configuration are mapped to one document name
SharedDocumentName ==
    \E f, g \in DOMAIN config.pdf_names_mapping :
        f # g /\ config.pdf_names_mapping[f] = config.pdf_names_mapping[g]

\* C36: validate_configuration reports an error for every loaded
\* configuration in which two distinct folders are mapped to the same
\* document name.
C36_SharedNameReported ==
    (Loaded /\ SharedDocumentName) => validate_configuration(config) # {}

\* C37: with archive_after_processing off nothing is ever in the archive, and
\* every outcome whose dispatch succeeded reports files_archived true after
\* both archive calls were made, while the document is still in the output
\* area and the folder still holds its images, the rendered ones included.
C37_DisabledArchiveIsNoOp ==
    ~config.settings.archive_after_processing
        => /\ disk.archive = {}
           /\ \A i \in DOMAIN processing_results :
                 LET r == processing_results[i]
                     f == r.folder_name
                 IN  r.emails_sent
                        => /\ r.files_archived
                           /\ Len(CallsOf(disk.calls, "archive_pdf", f)) = 1
                           /\ Len(CallsOf(disk.calls, "archive_pngs", f)) = 1
                           /\ \E d \in DocsAt(disk, r.pdf_path) : d.pdf
                           /\ disk.input[f] # {}
                           /\ RenderedFrom(disk.calls, f) \subseteq disk.input[f]

\* C37 witness: archiving is off, folder "a" was dispatched and reports
\* files_archived, and its document and both its images are where they were
C37_Witness ==
    /\ ~config.settings.archive_after_processing
    /\ \E i \in DOMAIN processing_results :
          LET r == processing_results[i]
          IN  /\ r.folder_name = "a" /\ r.emails_sent /\ r.files_archived
              /\ r.error = NoName
              /\ \E d \in DocsAt(disk, r.pdf_path) : d.pdf /\ d.meta
              /\ disk.input["a"] = {"x.png", "y.png"}

(***************************************************************************)
(* Properties of the transports, checked under SpecMailer.                 *)
(***************************************************************************)
\* C38: with the default mailer selected, every _send_single_email call in
\* which the hand-off was invoked returned success, whether or not the mail
\* client opened; the hand-off is invoked exactly when the content was
\* generated and Outlook automation did not send the message.
C38_HandOffAlwaysSucceeds ==
    \A k \in DOMAIN mail_attempts :
        LET a == mail_attempts[k]
        IN  /\ a.result.handoff => a.result.ok
            /\ a.result.handoff
                  <=> (/\ config.settings.use_default_mailer
                       /\ a.env.content = "ok"
                       /\ ~(a.env.os = "nt" /\ a.env.outlook = "sent"))

\* C38 witness: the hand-off was invoked, the mail client did not open, and
\* the call was reported as successful
C38_Witness ==
    \E k \in DOMAIN mail_attempts :
        LET a == mail_attempts[k]
        IN  /\ a.result.handoff /\ ~a.result.opened /\ a.result.ok
            /\ a.env.client = "raises" /\ a.env.os = "nt" /\ a.env.outlook = "raises"

\* the images of the global folder
GlobalImages(st) == IF "ALL" \in st.dirs THEN st.input["ALL"] ELSE {}

\* every image list handed to the builder in this invocation starts with
\* the images of the global folder
C39_Merged ==
    \A k \in DOMAIN disk.calls :
        (disk.calls[k].op = "images" /\ disk.calls[k].folder # "ALL")
            => \A n \in GlobalImages(disk) :
                  \E j \in DOMAIN disk.calls[k].files :
                      disk.calls[k].files[j] = [name |-> n, src |-> "ALL"]

\* C39: no step of an invocation changes the global folder or its images,
\* nothing in the archive comes from the global folder, and every image list
\* handed to the builder holds every image of the global folder, in the first
\* invocation as in every later one.
C39_GlobalFolderUntouched ==
    /\ [][/\ disk'.input["ALL"] = disk.input["ALL"]
          /\ ("ALL" \in disk'.dirs) <=> ("ALL" \in disk.dirs)]_vars
    /\ [](C39_Merged /\ \A x \in disk.archive : x.from # "ALL")

\* C39 witness: in an earlier invocation folder "a" was archived and the
\* dispatch of folder "B" failed; in this full run the document of "B" is
\* built again and the global folder's x.png, still in place, is a page of it
C39_Witness ==
    /\ runs = 2 /\ command[1] = "run"
    /\ "B" \in disk.dispatch_failed
    /\ \E x \in disk.archive : x.kind = "png" /\ x.from = "a"
    /\ "x.png" \in GlobalImages(disk)
    /\ \E k \in DOMAIN CallsOf(disk.calls, "render", "B") :
          LET c == CallsOf(disk.calls, "render", "B")[k]
          IN  c.ok /\ \E j \in DOMAIN c.files : c.files[j] = [name |-> "x.png", src |-> "ALL"]

\* the pieces of the cell handed to split_email_list, white space removed; a
\* missing cell has none
C40_Pieces ==
    IF recipients_cell.kind = "str"
    THEN [i \in DOMAIN recipients_cell.tokens |-> Strip(recipients_cell.tokens[i])]
    ELSE <<>>

\* the positions of the well-formed pieces
C40_ValidAt == {i \in DOMAIN C40_Pieces : validate_email(C40_Pieces[i])}

\* C40: split_email_list returns exactly the syntactically valid addresses of
\* the delimiter-separated input, in input order, whatever invalid pieces
\* stand between them, and the empty list for an empty or missing input:
\* the result lists the well-formed pieces one for one, by rising position.
C40_ExactlyTheValidInOrder ==
    mpc = "split" =>
        /\ \E f \in [DOMAIN valid_emails -> C40_ValidAt] :
              /\ \A i \in C40_ValidAt : \E k \in DOMAIN valid_emails : f[k] = i
              /\ \A k, l \in DOMAIN valid_emails : k < l => f[k] < f[l]
              /\ \A k \in DOMAIN valid_emails : valid_emails[k] = C40_Pieces[f[k]]
        /\ (recipients_cell.kind # "str" \/ recipients_cell.tokens = <<>>) => valid_emails = <<>>

\* two well-formed addresses, the second with white space around it, and a
\* piece without "@" between them: the two addresses come back in order
C40_Witness ==
    /\ mpc = "split"
    /\ recipients_cell = Cell(<<addrGood, Address(1, FALSE, 1, 2), Padded(addrOther)>>)
    /\ valid_emails = <<addrGood, addrOther>>

====
